---- MODULE Spec2Model ----
(***************************************************************************)
(* Request pipeline of the TotesMatriz backend controllers.                *)
(*                                                                         *)
(* Every gin handler of src/ is transcribed, statement by statement, into  *)
(* a small structured program (a sequence of instructions whose guarded    *)
(* blocks are nested sequences).  One request executes one handler; each   *)
(* step action below executes the instruction at the head of the request's *)
(* continuation.  The utilities (RegisterLog, CheckPermission) and the     *)
(* entity services are collaborators whose code is not part of src/; they  *)
(* are modelled from the written specification.                            *)
(***************************************************************************)
EXTENDS Integers, Sequences, FiniteSets, TLC

VARIABLES store, auditLog, req

vars == <<store, auditLog, req>>

(***************************************************************************)
(* Bounds of the model.                                                    *)
(***************************************************************************)
\* longest path / query parameter, in characters
MaxLen == 2
\* most rows one entity table may hold
MaxRows == 4

\* characters a path or query parameter is made of
Alphabet == {"0", "1", "x"}
\* request slots (one goroutine per in-flight request)
Slots == {1, 2}

(***************************************************************************)
(* Strings as sequences of characters; strconv.Atoi, strconv.Itoa,         *)
(* fmt.Sscanf("%d") and substring search computed on them.                 *)
(***************************************************************************)
RECURSIVE StringsOfLen(_)
StringsOfLen(n) ==
    IF n = 0 THEN {<<>>}
    ELSE {Append(s, c) : s \in StringsOfLen(n - 1), c \in Alphabet}

ParamStrings == UNION {StringsOfLen(n) : n \in 0..MaxLen}

Digits == <<"0", "1", "2", "3", "4", "5", "6", "7", "8", "9">>

IsDigit(c) == \E i \in 1..10 : Digits[i] = c

DigitVal(c) == (CHOOSE i \in 1..10 : Digits[i] = c) - 1

RECURSIVE DigitsVal(_)
DigitsVal(s) ==
    IF s = <<>> THEN 0
    ELSE 10 * DigitsVal(SubSeq(s, 1, Len(s) - 1)) + DigitVal(s[Len(s)])

\* strconv.Atoi: every character must be a digit, the empty string fails
AtoiOk(s) == s # <<>> /\ \A i \in 1..Len(s) : IsDigit(s[i])

Atoi(s) == DigitsVal(s)

RECURSIVE Itoa(_)
Itoa(n) ==
    IF n < 10 THEN <<Digits[n + 1]>>
    ELSE Append(Itoa(n \div 10), Digits[(n % 10) + 1])

\* fmt.Sscanf(s, "%d", &id): reads the longest digit prefix, which must not
\* be empty; what follows the prefix is ignored
RECURSIVE DigitPrefix(_)
DigitPrefix(s) ==
    IF s = <<>> \/ ~IsDigit(Head(s)) THEN <<>>
    ELSE <<Head(s)>> \o DigitPrefix(Tail(s))

SscanfOk(s) == DigitPrefix(s) # <<>>

Sscanf(s) == DigitsVal(DigitPrefix(s))

\* partial match of the search services (SQL LIKE '%q%')
Contains(s, q) ==
    \E i \in 0..(Len(s) - Len(q)) : SubSeq(s, i + 1, i + Len(q)) = q

(***************************************************************************)
(* Reference data of the authorization check: permission registry, roles,  *)
(* user types and principals.                                              *)
(***************************************************************************)
PermissionRegistry == <<
    "PERMISSION_GET_USER_BY_ID", "PERMISSION_GET_ALL_USERS",
    "PERMISSION_SEARCH_USER_BY_ID", "PERMISSION_SEARCH_USERS_BY_EMAIL",
    "PERMISSION_UPDATE_USER_STATE", "PERMISSION_UPDATE_USER",
    "PERMISSION_CREATE_USER", "PERMISSION_CALCULATE_SUBTOTAL",
    "PERMISSION_CALCULATE_TOTAL", "PERMISSION_CHECK_ITEM_STOCK",
    "PERMISSION_CREATE_ADDITIONAL_EXPENSE", "PERMISSION_CREATE_APPOINTMENT",
    "PERMISSION_CREATE_COMMENT", "PERMISSION_CREATE_CUSTOMER",
    "PERMISSION_CREATE_DISCOUNT_TYPE", "PERMISSION_CREATE_EMPLOYEE",
    "PERMISSION_CREATE_INVOICE", "PERMISSION_CREATE_ITEM",
    "PERMISSION_CREATE_TAX_TYPE", "PERMISSION_DELETE_ADDITIONAL_EXPENSE",
    "PERMISSION_DELETE_APPOINTMENT", "PERMISSION_EXIST_ROLE",
    "PERMISSION_EXIST_USER_TYPE", "PERMISSION_GET_ADDITIONAL_EXPENSE_BY_ID",
    "PERMISSION_GET_ALL_ADDITIONAL_EXPENSE", "PERMISSION_GET_ALL_APPOINTMENTS",
    "PERMISSION_GET_ALL_COMMENTS", "PERMISSION_GET_ALL_CUSTOMERS",
    "PERMISSION_GET_ALL_DISCOUNT_TYPES", "PERMISSION_GET_ALL_EMPLOYEES",
    "PERMISSION_GET_ALL_EXTERNAL_SALES", "PERMISSION_GET_ALL_IDENTIFIER_TYPES",
    "PERMISSION_GET_ALL_INVOICES", "PERMISSION_GET_ALL_ORDER_STATE_TYPES",
    "PERMISSION_GET_ALL_PERMISSIONS", "PERMISSION_GET_ALL_PERMISSIONS_OF_ROLE",
    "PERMISSION_GET_ALL_ROLES", "PERMISSION_GET_ALL_TAX_TYPES",
    "PERMISSION_GET_ALL_USER_STATE_TYPES", "PERMISSION_GET_ALL_USER_TYPES",
    "PERMISSION_GET_APPOINTMENTS_BY_CUSTOMERID_AND_DATE", "PERMISSION_GET_APPOINTMENTS_BY_HOUR",
    "PERMISSION_GET_APPOINTMENT_BY_CUSTOMER_ID", "PERMISSION_GET_APPOINTMENT_BY_ID",
    "PERMISSION_GET_COMMENT_BY_ID", "PERMISSION_GET_CUSTOMER_BY_CUSTOMERID",
    "PERMISSION_GET_CUSTOMER_BY_EMAIL", "PERMISSION_GET_CUSTOMER_BY_ID",
    "PERMISSION_GET_DISCOUNT_TYPE_BY_ID", "PERMISSION_GET_EMPLOYEE_BY_ID",
    "PERMISSION_GET_EXTERNAL_SALE_BY_ID", "PERMISSION_GET_IDENTIFIER_TYPE_BY_ID",
    "PERMISSION_GET_INVOICE_BY_ID", "PERMISSION_GET_ITEM_BY_ID",
    "PERMISSION_GET_ITEM_TYPES", "PERMISSION_GET_ORDER_STATE_TYPE_BY_ID",
    "PERMISSION_GET_PERMISSION_BY_ID", "PERMISSION_GET_ROLE_BY_ID",
    "PERMISSION_GET_TAX_TYPE_BY_ID", "PERMISSION_GET_USER_STATE_TYPE_BY_ID",
    "PERMISSION_GET_USER_TYPE_BY_ID", "PERMISSION_SEARCH_APPOINTMENTS_BY_ID",
    "PERMISSION_SEARCH_APPOINTMENT_BY_STATE", "PERMISSION_SEARCH_COMMENTS_BY_EMAIL",
    "PERMISSION_SEARCH_COMMENTS_BY_ID", "PERMISSION_SEARCH_COMMENTS_BY_NAME",
    "PERMISSION_SEARCH_CUSTOMERS_BY_ID", "PERMISSION_SEARCH_CUSTOMERS_BY_LASTNAME",
    "PERMISSION_SEARCH_CUSTOMERS_BY_NAME", "PERMISSION_SEARCH_EMPLOYEES_BY_ID",
    "PERMISSION_SEARCH_EMPLOYEES_BY_NAME", "PERMISSION_SEARCH_INVOICE_BY_CUSTOMER_PERSONAL_ID",
    "PERMISSION_SEARCH_INVOICE_BY_ID", "PERMISSION_SEARCH_ITEMS_BY_ID",
    "PERMISSION_SEARCH_ITEMS_BY_NAME", "PERMISSION_SEARCH_PERMISSION_BY_ID",
    "PERMISSION_SEARCH_PERMISSION_BY_NAME", "PERMISSION_SEARCH_ROLE_BY_ID",
    "PERMISSION_SEARCH_ROLE_BY_NAME", "PERMISSION_SEARCH_USER_TYPES_BY_ID",
    "PERMISSION_SEARCH_USER_TYPES_BY_NAME", "PERMISSION_UPDATE_ADDITIONAL_EXPENSE",
    "PERMISSION_UPDATE_APPOINTMENT", "PERMISSION_UPDATE_COMMENT",
    "PERMISSION_UPDATE_CUSTOMER", "PERMISSION_UPDATE_EMPLOYEE",
    "PERMISSION_UPDATE_ITEM", "PERMISSION_UPDATE_ITEM_STATE" >>

PermissionCodes == 1..Len(PermissionRegistry)

\* config.PERMISSION_X: the integer code of a symbolic permission name
PermissionCode(name) ==
    IF \E i \in PermissionCodes : PermissionRegistry[i] = name
    THEN CHOOSE i \in PermissionCodes : PermissionRegistry[i] = name
    ELSE 0

Roles == {"role_all", "role_users", "role_empty"}

RolePermissions ==
    [r \in Roles |->
        CASE r = "role_all"   -> PermissionCodes
          [] r = "role_users" -> {PermissionCode("PERMISSION_GET_USER_BY_ID"),
                                  PermissionCode("PERMISSION_GET_ALL_USERS")}
          [] OTHER            -> {}]

UserTypes == {"admin", "clerk", "guest"}

\* the roles of a user type, in the order the roles are resolved
UserTypeRoles ==
    [t \in UserTypes |->
        CASE t = "admin" -> <<"role_users", "role_all", "role_empty">>
          [] t = "clerk" -> <<"role_users", "role_empty">>
          [] OTHER       -> <<>>]

\* "" is the request without a principal
Principals == {"", "admin@totes", "clerk@totes", "guest@totes"}

PrincipalUserType(p) ==
    CASE p = "admin@totes" -> "admin"
      [] p = "clerk@totes" -> "clerk"
      [] p = "guest@totes" -> "guest"
      [] OTHER             -> ""

\* walk the roles of a user type one by one, as the authorization check resolves
\* Principal -> UserType -> Roles -> Permissions
RECURSIVE AnyRoleGrants(_, _)
AnyRoleGrants(roles, code) ==
    IF roles = <<>> THEN FALSE
    ELSE IF code \in RolePermissions[Head(roles)] THEN TRUE
    ELSE AnyRoleGrants(Tail(roles), code)

UserHasPermission(p, code) ==
    IF PrincipalUserType(p) = "" THEN FALSE
    ELSE AnyRoleGrants(UserTypeRoles[PrincipalUserType(p)], code)

\* utilities.AuthorizationUtil.CheckPermission(c, permissionId): no side effect
CheckPermission(p, name) == UserHasPermission(p, PermissionCode(name))

(***************************************************************************)
(* Persistence.  A table is a set of rows; id is the primary key, nk the   *)
(* natural key (a user's email, an employee's PersonalID, an appointment's *)
(* date and time) and v the remaining content of the row.                  *)
(***************************************************************************)
Kinds == {"user", "employee", "comment", "customer", "item", "appointment",
          "additionalexpense", "invoice", "externalsale", "discounttype",
          "taxtype", "identifiertype", "orderstatetype", "itemtype",
          "userstatetype", "role", "usertype", "permission"}

Row(id, nk, v) == [id |-> id, nk |-> nk, v |-> v]

SeedRow == Row(<<"1">>, <<"1", "0">>, "a")

\* the contents a table may have when a request arrives
SeedTables == {{}, {SeedRow}}

\* at most three appointments may share one date and time
\* a limit that lets a fourth appointment in
AppointmentLimitOffByOne == 3 + 1

AppointmentLimit == 3

RECURSIVE MaxId(_)
MaxId(rows) ==
    IF rows = {} THEN 0
    ELSE LET r == CHOOSE x \in rows : TRUE
             m == MaxId(rows \ {r})
         IN IF DigitsVal(r.id) > m THEN DigitsVal(r.id) ELSE m

\* the primary key the database generates for an inserted row
FreshId(rows) == Itoa(MaxId(rows) + 1)

Outcome(err, n, rows) == [err |-> err, n |-> n, rows |-> rows]

\* every service call may fail with an unclassified persistence error
PersistenceFailure(rows) == Outcome("other", 0, rows)

Insert(rows, nk) ==
    IF Cardinality(rows) >= MaxRows
    THEN {PersistenceFailure(rows)}
    ELSE {Outcome("", 1, rows \cup {Row(FreshId(rows), nk, "b")})}

(***************************************************************************)
(* Entity services (generic contract): the outcomes of one call on a table.*)
(*   GetByID(id) -> (Entity, NotFoundError?)                               *)
(*   GetAll() / SearchByField(q) -> ([]Entity, Error?), empty is no error  *)
(*   Create(entity): uniqueness of the natural key checked before insert   *)
(*   Update(entity) / Delete(id) -> NotFoundError | Error?                 *)
(***************************************************************************)
\* an insert that lets two rows share a natural key
CreateUnchecked(rows, key) == Insert(rows, key)

\* Create(entity) on a table with a unique natural key: the uniqueness
\* constraint of the backend rejects a key that is stored
CreateUnique(rows, key) ==
    IF \E r \in rows : r.nk = key
    THEN {Outcome("conflict", 0, rows)}
    ELSE Insert(rows, key)

ServiceOutcomes(optype, rows, key) ==
    {PersistenceFailure(rows)} \cup
    CASE optype = "get" ->
            IF \E r \in rows : r.id = key
            THEN {Outcome("", 1, rows)}
            ELSE {Outcome("notfound", 0, rows)}
      [] optype = "getNK" ->
            IF \E r \in rows : r.nk = key
            THEN {Outcome("", 1, rows)}
            ELSE {Outcome("notfound", 0, rows)}
      [] optype = "exists" ->
            {Outcome("", IF \E r \in rows : r.id = key THEN 1 ELSE 0, rows)}
      [] optype = "list" ->
            {Outcome("", Cardinality(rows), rows)}
      [] optype = "search" ->
            {Outcome("", Cardinality({r \in rows : Contains(r.id, key)}), rows)}
      [] optype = "searchNK" ->
            {Outcome("", Cardinality({r \in rows : Contains(r.nk, key)}), rows)}
      [] optype = "create" ->
            Insert(rows, <<>>)
      [] optype = "createNK" ->
            CreateUnique(rows, key)
      [] optype = "createLimited" ->
            IF Cardinality({r \in rows : r.nk = key}) >= AppointmentLimit
            THEN {Outcome("limit", 0, rows)}
            ELSE Insert(rows, key)
      [] optype = "update" ->
            IF \E r \in rows : r.id = key
            THEN {Outcome("", 1, {IF r.id = key THEN Row(r.id, r.nk, "b") ELSE r
                                  : r \in rows})}
            ELSE {Outcome("notfound", 0, rows)}
      [] optype = "delete" ->
            IF \E r \in rows : r.id = key
            THEN {Outcome("", 1, {r \in rows : r.id # key})}
            ELSE {Outcome("notfound", 0, rows)}
      [] optype = "compute" ->
            {Outcome("", 1, rows), Outcome("notfound", 0, rows)}
      [] optype = "login" ->
            {Outcome("", 1, rows), Outcome("inactive", 0, rows),
             Outcome("invalid", 0, rows)}
      [] OTHER -> {}

\* AuthorizationService.UserHasPermission(email, permissionID)
HasPermissionOutcomes(rows, p, key) ==
    {PersistenceFailure(rows),
     Outcome("", IF UserHasPermission(p, Atoi(key)) THEN 1 ELSE 0, rows)}

(***************************************************************************)
(* Instructions of a handler.                                              *)
(***************************************************************************)
Instr(op, a, b, c, n, blk, els) ==
    [op |-> op, a |-> a, b |-> b, c |-> c, n |-> n, blk |-> blk, els |-> els]

\* _ = x.Log.RegisterLog(c, msg)
RegisterLog(kind) == Instr("log", kind, "", "", 0, <<>>, <<>>)

\* if x.Log.RegisterLog(c, msg) != nil { blk }
IfRegisterLogFails(kind, blk) == Instr("log", kind, "checked", "", 0, blk, <<>>)

\* if !x.Auth.CheckPermission(c, config.PERMISSION_X) { blk }
IfNotCheckPermission(perm, blk) == Instr("auth", perm, "", "", 0, blk, <<>>)

\* if <input does not parse / validate> { blk }
IfInvalid(how, blk) == Instr("bind", how, "", "", 0, blk, <<>>)

\* x.Service.Name(...), an operation of type optype on the table of kind
Call(name, optype, kind) == Instr("call", name, optype, kind, 0, <<>>, <<>>)

\* if <condition on the result of the last call> { blk } else { els }
IfElse(cond, blk, els) == Instr("if", cond, "", "", 0, blk, els)

If(cond, blk) == IfElse(cond, blk, <<>>)

\* for _, x := range <result of the last call> { blk }
ForEach(blk) == Instr("foreach", "", "", "", 0, blk, <<>>)

\* c.JSON(status, gin.H{key: ...}) or c.JSON(status, dto); content says what
\* the body is made of
JSON(status, key, content) == Instr("json", key, content, "", status, <<>>, <<>>)

Return == Instr("return", "", "", "", 0, <<>>, <<>>)

\* c.JSON(http.StatusInternalServerError, gin.H{"error": "Error registering log"}); return
(***************************************************************************)
(* src/controllers/user_controller.go                                      *)
(***************************************************************************)
\* GetUserByID looking the user up before the permission check
UserController_GetUserByID_LooksUpFirst == <<
    IfRegisterLogFails("attempt", << JSON(500, "error", "text"), Return >>),
    Call("GetUserByID", "get", "user"),
    If("err", << RegisterLog("outcome"), JSON(500, "error", "text"), Return >>),
    IfNotCheckPermission("PERMISSION_GET_USER_BY_ID", <<
        RegisterLog("denied"),
        JSON(403, "error", "text"),
        Return
    >>),
    If("nil", << RegisterLog("outcome"), JSON(404, "error", "text"), Return >>),
    RegisterLog("outcome"),
    JSON(200, "", "dto"),
    Return >>

\* lines 42-81
UserController_GetUserByID == <<
    IfRegisterLogFails("attempt", << JSON(500, "error", "text"), Return >>),
    IfNotCheckPermission("PERMISSION_GET_USER_BY_ID", <<
        RegisterLog("denied"),
        JSON(403, "error", "text"),
        Return
    >>),
    Call("GetUserByID", "get", "user"),
    If("err", << RegisterLog("outcome"), JSON(500, "error", "text"), Return >>),
    If("nil", << RegisterLog("outcome"), JSON(404, "error", "text"), Return >>),
    RegisterLog("outcome"),
    JSON(200, "", "dto"),
    Return >>

\* lines 95-131
UserController_GetAllUsers == <<
    IfRegisterLogFails("attempt", << JSON(500, "error", "text"), Return >>),
    IfNotCheckPermission("PERMISSION_GET_ALL_USERS", <<
        RegisterLog("denied"),
        JSON(403, "error", "text"),
        Return
    >>),
    Call("GetAllUsers", "list", "user"),
    If("err", << RegisterLog("outcome"), JSON(404, "error", "text"), Return >>),
    RegisterLog("outcome"),
    JSON(200, "", "dto"),
    Return >>

\* SearchUsersByID validating its query before the permission check
UserController_SearchUsersByID_ValidatesFirst == <<
    IfRegisterLogFails("attempt", << JSON(500, "error", "text"), Return >>),
    IfInvalid("nonempty", << RegisterLog("outcome"), JSON(400, "error", "text"), Return >>),
    IfNotCheckPermission("PERMISSION_SEARCH_USER_BY_ID", <<
        RegisterLog("denied"),
        JSON(403, "error", "text"),
        Return
    >>),
    Call("SearchUsersByID", "search", "user"),
    If("err", << RegisterLog("outcome"), JSON(404, "error", "text"), Return >>),
    If("empty", << RegisterLog("outcome"), JSON(404, "message", "text"), Return >>),
    RegisterLog("outcome"),
    JSON(200, "", "dto"),
    Return >>

\* lines 147-196
UserController_SearchUsersByID == <<
    IfRegisterLogFails("attempt", << JSON(500, "error", "text"), Return >>),
    IfNotCheckPermission("PERMISSION_SEARCH_USER_BY_ID", <<
        RegisterLog("denied"),
        JSON(403, "error", "text"),
        Return
    >>),
    IfInvalid("nonempty", << RegisterLog("outcome"), JSON(400, "error", "text"), Return >>),
    Call("SearchUsersByID", "search", "user"),
    If("err", << RegisterLog("outcome"), JSON(404, "error", "text"), Return >>),
    If("empty", << RegisterLog("outcome"), JSON(404, "message", "text"), Return >>),
    RegisterLog("outcome"),
    JSON(200, "", "dto"),
    Return >>

\* lines 212-261
UserController_SearchUsersByEmail == <<
    IfRegisterLogFails("attempt", << JSON(500, "error", "text"), Return >>),
    IfNotCheckPermission("PERMISSION_SEARCH_USERS_BY_EMAIL", <<
        RegisterLog("denied"),
        JSON(403, "error", "text"),
        Return
    >>),
    IfInvalid("nonempty", << RegisterLog("outcome"), JSON(400, "error", "text"), Return >>),
    Call("SearchUsersByEmail", "searchNK", "user"),
    If("err", << RegisterLog("outcome"), JSON(404, "error", "text"), Return >>),
    If("empty", << RegisterLog("outcome"), JSON(404, "message", "text"), Return >>),
    RegisterLog("outcome"),
    JSON(200, "", "dto"),
    Return >>

\* lines 282-327
UserController_UpdateUserState == <<
    IfRegisterLogFails("attempt", << JSON(500, "error", "text"), Return >>),
    IfNotCheckPermission("PERMISSION_UPDATE_USER_STATE", <<
        RegisterLog("denied"),
        JSON(403, "error", "text"),
        Return
    >>),
    IfInvalid("json", << RegisterLog("outcome"), JSON(400, "error", "rawerr"), Return >>),
    Call("UpdateUserState", "update", "user"),
    If("err", << RegisterLog("outcome"), JSON(404, "error", "text"), Return >>),
    RegisterLog("outcome"),
    JSON(200, "", "dto"),
    Return >>

\* UpdateUser going on to the update whatever the lookup returned
UserController_UpdateUser_LookupIgnored == <<
    IfRegisterLogFails("attempt", << JSON(500, "error", "text"), Return >>),
    IfNotCheckPermission("PERMISSION_UPDATE_USER", <<
        RegisterLog("denied"),
        JSON(403, "error", "text"),
        Return
    >>),
    IfInvalid("json", << RegisterLog("outcome"), JSON(400, "error", "rawerr"), Return >>),
    Call("GetUserByID", "get", "user"),
    Call("UpdateUser", "update", "user"),
    If("err", << RegisterLog("outcome"), JSON(500, "error", "text"), Return >>),
    RegisterLog("outcome"),
    JSON(200, "", "dto"),
    Return >>

\* lines 344-401
UserController_UpdateUser == <<
    IfRegisterLogFails("attempt", << JSON(500, "error", "text"), Return >>),
    IfNotCheckPermission("PERMISSION_UPDATE_USER", <<
        RegisterLog("denied"),
        JSON(403, "error", "text"),
        Return
    >>),
    IfInvalid("json", << RegisterLog("outcome"), JSON(400, "error", "rawerr"), Return >>),
    Call("GetUserByID", "get", "user"),
    If("err", <<
        If("notfound", << RegisterLog("outcome"), JSON(404, "error", "text"), Return >>),
        RegisterLog("outcome"),
        JSON(500, "error", "text"),
        Return
    >>),
    Call("UpdateUser", "update", "user"),
    If("err", << RegisterLog("outcome"), JSON(500, "error", "text"), Return >>),
    RegisterLog("outcome"),
    JSON(200, "", "dto"),
    Return >>

\* CreateUser without the return that ends a denied request
UserController_CreateUser_DenialFallsThrough == <<
    IfRegisterLogFails("attempt", << JSON(500, "error", "text"), Return >>),
    IfNotCheckPermission("PERMISSION_CREATE_USER", <<
        RegisterLog("denied"),
        JSON(403, "error", "text")
    >>),
    IfInvalid("json", << RegisterLog("outcome"), JSON(400, "error", "rawerr"), Return >>),
    Call("GetUserByEmail", "getNK", "user"),
    If("notnil", << RegisterLog("outcome"), JSON(409, "error", "text"), Return >>),
    Call("CreateUser", "createNK", "user"),
    If("err", << RegisterLog("outcome"), JSON(500, "error", "text"), Return >>),
    RegisterLog("outcome"),
    JSON(201, "", "dto"),
    Return >>

\* lines 417-469
UserController_CreateUser == <<
    IfRegisterLogFails("attempt", << JSON(500, "error", "text"), Return >>),
    IfNotCheckPermission("PERMISSION_CREATE_USER", <<
        RegisterLog("denied"),
        JSON(403, "error", "text"),
        Return
    >>),
    IfInvalid("json", << RegisterLog("outcome"), JSON(400, "error", "rawerr"), Return >>),
    Call("GetUserByEmail", "getNK", "user"),
    If("notnil", << RegisterLog("outcome"), JSON(409, "error", "text"), Return >>),
    Call("CreateUser", "createNK", "user"),
    If("err", << RegisterLog("outcome"), JSON(500, "error", "text"), Return >>),
    RegisterLog("outcome"),
    JSON(201, "", "dto"),
    Return >>

(***************************************************************************)
(* src/controllers/authorization_controller.go                             *)
(***************************************************************************)
\* CheckUserPermission answering without looking at the error of the service
AuthorizationController_CheckUserPermission_ErrorIgnored == <<
    IfInvalid("atoi", << JSON(400, "error", "text"), Return >>),
    IfInvalid("query", << JSON(400, "error", "text"), Return >>),
    Call("UserHasPermission", "haspermission", "user"),
    JSON(200, "has_permission", "bool"),
    Return >>

\* lines 34-56
AuthorizationController_CheckUserPermission == <<
    IfInvalid("atoi", << JSON(400, "error", "text"), Return >>),
    IfInvalid("query", << JSON(400, "error", "text"), Return >>),
    Call("UserHasPermission", "haspermission", "user"),
    If("err", << JSON(500, "error", "text"), Return >>),
    JSON(200, "has_permission", "bool"),
    Return >>

(***************************************************************************)
(* src/controllers/billing_controller.go                                   *)
(***************************************************************************)
\* lines 40-60
BillingController_CalculateSubtotal == <<
    IfNotCheckPermission("PERMISSION_CALCULATE_SUBTOTAL", << Return >>),
    IfInvalid("json", << JSON(400, "error", "text"), Return >>),
    Call("CalculateSubtotal", "compute", "item"),
    If("err", << JSON(404, "error", "rawerr"), Return >>),
    JSON(200, "subtotal", "value"),
    Return >>

\* lines 79-110
BillingController_CalculateTotal == <<
    IfNotCheckPermission("PERMISSION_CALCULATE_TOTAL", << Return >>),
    IfInvalid("json", << JSON(400, "error", "text"), Return >>),
    Call("CalculateTotal", "compute", "item"),
    If("err", << JSON(404, "error", "rawerr"), Return >>),
    JSON(200, "total", "value"),
    Return >>

(***************************************************************************)
(* src/controllers/health.go                                               *)
(***************************************************************************)
\* lines 16-20
ControllerHealthCheck == <<
    JSON(200, "message", "text"),
    Return >>

(***************************************************************************)
(* src/controllers/role_controller.go                                      *)
(***************************************************************************)
\* lines 23-62
RoleControllerB_GetRoleByID == <<
    IfNotCheckPermission("PERMISSION_GET_ROLE_BY_ID", << Return >>),
    IfInvalid("sscanf", << JSON(400, "error", "text"), Return >>),
    Call("GetRoleByID", "get", "role"),
    If("err", << JSON(404, "error", "text"), Return >>),
    Call("GetRolePermissions", "list", "role"),
    If("err", << JSON(500, "error", "text"), Return >>),
    JSON(200, "", "dto"),
    Return >>

\* lines 64-101
RoleControllerB_GetAllRoles == <<
    IfNotCheckPermission("PERMISSION_GET_ALL_ROLES", << Return >>),
    Call("GetAllRoles", "list", "role"),
    If("err", << JSON(500, "error", "text"), Return >>),
    ForEach(<<
        Call("GetRolePermissions", "list", "role"),
        If("err", << JSON(500, "error", "text"), Return >>)
    >>),
    JSON(200, "", "dto"),
    Return >>

\* lines 103-124
RoleControllerB_GetAllPermissionsOfRole == <<
    IfNotCheckPermission("PERMISSION_GET_ALL_PERMISSIONS_OF_ROLE", << Return >>),
    IfInvalid("sscanf", << JSON(400, "error", "text"), Return >>),
    Call("GetAllPermissionsOfRole", "list", "role"),
    If("err", << JSON(500, "error", "text"), Return >>),
    JSON(200, "", "dto"),
    Return >>

\* lines 126-148
RoleControllerB_ExistRole == <<
    IfNotCheckPermission("PERMISSION_EXIST_ROLE", << Return >>),
    IfInvalid("sscanf", << JSON(400, "error", "text"), Return >>),
    Call("ExistRole", "exists", "role"),
    If("err", << JSON(500, "error", "text"), Return >>),
    JSON(200, "exists", "bool"),
    Return >>

\* lines 150-169
RoleControllerB_SearchRolesByID == <<
    IfNotCheckPermission("PERMISSION_SEARCH_ROLE_BY_ID", << Return >>),
    Call("SearchRolesByID", "search", "role"),
    If("err", << JSON(500, "error", "text"), Return >>),
    JSON(200, "", "dto"),
    Return >>

\* lines 171-190
RoleControllerB_SearchRolesByName == <<
    IfNotCheckPermission("PERMISSION_SEARCH_ROLE_BY_NAME", << Return >>),
    Call("SearchRolesByName", "searchNK", "role"),
    If("err", << JSON(500, "error", "text"), Return >>),
    JSON(200, "", "dto"),
    Return >>

(***************************************************************************)
(* src/controllers/discount_type_controller.go                             *)
(***************************************************************************)
\* lines 38-61
DiscountTypeController_GetDiscountTypeByID == <<
    IfRegisterLogFails("attempt", << JSON(500, "error", "text"), Return >>),
    IfNotCheckPermission("PERMISSION_GET_DISCOUNT_TYPE_BY_ID", << RegisterLog("denied"), Return >>),
    Call("GetDiscountTypeByID", "get", "discounttype"),
    If("err", << RegisterLog("outcome"), JSON(404, "error", "text"), Return >>),
    RegisterLog("outcome"),
    JSON(200, "", "dto"),
    Return >>

\* lines 74-95
DiscountTypeController_GetAllDiscountTypes == <<
    IfRegisterLogFails("attempt", << JSON(500, "error", "text"), Return >>),
    IfNotCheckPermission("PERMISSION_GET_ALL_DISCOUNT_TYPES", << RegisterLog("denied"), Return >>),
    Call("GetAllDiscountTypes", "list", "discounttype"),
    If("err", << RegisterLog("outcome"), JSON(500, "error", "text"), Return >>),
    RegisterLog("outcome"),
    JSON(200, "", "dto"),
    Return >>

\* lines 110-138
DiscountTypeController_CreateDiscountType == <<
    IfRegisterLogFails("attempt", << JSON(500, "error", "text"), Return >>),
    IfNotCheckPermission("PERMISSION_CREATE_DISCOUNT_TYPE", << RegisterLog("denied"), Return >>),
    IfInvalid("json", << RegisterLog("outcome"), JSON(400, "error", "text"), Return >>),
    Call("CreateDiscountType", "create", "discounttype"),
    If("err", << RegisterLog("outcome"), JSON(500, "error", "text"), Return >>),
    RegisterLog("outcome"),
    JSON(201, "", "dto"),
    Return >>

\* lines 176-225
RoleController_GetRoleByID == <<
    IfNotCheckPermission("PERMISSION_GET_ROLE_BY_ID", << RegisterLog("denied"), Return >>),
    IfRegisterLogFails("attempt", << JSON(500, "error", "text"), Return >>),
    IfInvalid("sscanf", << RegisterLog("outcome"), JSON(400, "error", "text"), Return >>),
    Call("GetRoleByID", "get", "role"),
    If("err", << RegisterLog("outcome"), JSON(404, "error", "text"), Return >>),
    Call("GetRolePermissions", "list", "role"),
    If("err", << RegisterLog("outcome"), JSON(500, "error", "text"), Return >>),
    RegisterLog("outcome"),
    JSON(200, "", "dto"),
    Return >>

\* lines 237-282
RoleController_GetAllRoles == <<
    IfNotCheckPermission("PERMISSION_GET_ALL_ROLES", << RegisterLog("denied"), Return >>),
    IfRegisterLogFails("attempt", << JSON(500, "error", "text"), Return >>),
    Call("GetAllRoles", "list", "role"),
    If("err", << RegisterLog("outcome"), JSON(500, "error", "text"), Return >>),
    ForEach(<<
        Call("GetRolePermissions", "list", "role"),
        If("err", << RegisterLog("outcome"), JSON(500, "error", "text"), Return >>)
    >>),
    RegisterLog("outcome"),
    JSON(200, "", "dto"),
    Return >>

\* lines 296-327
RoleController_GetAllPermissionsOfRole == <<
    IfNotCheckPermission("PERMISSION_GET_ALL_PERMISSIONS_OF_ROLE", << RegisterLog("denied"), Return >>),
    IfRegisterLogFails("attempt", << JSON(500, "error", "text"), Return >>),
    IfInvalid("sscanf", << RegisterLog("outcome"), JSON(400, "error", "text"), Return >>),
    Call("GetAllPermissionsOfRole", "list", "role"),
    If("err", << RegisterLog("outcome"), JSON(500, "error", "text"), Return >>),
    RegisterLog("outcome"),
    JSON(200, "", "dto"),
    Return >>

\* lines 341-372
RoleController_ExistRole == <<
    IfNotCheckPermission("PERMISSION_EXIST_ROLE", << RegisterLog("denied"), Return >>),
    IfRegisterLogFails("attempt", << JSON(500, "error", "text"), Return >>),
    IfInvalid("sscanf", << RegisterLog("outcome"), JSON(400, "error", "text"), Return >>),
    Call("ExistRole", "exists", "role"),
    If("err", << RegisterLog("outcome"), JSON(500, "error", "text"), Return >>),
    RegisterLog("outcome"),
    JSON(200, "exists", "bool"),
    Return >>

\* lines 386-410
RoleController_SearchRolesByID == <<
    IfNotCheckPermission("PERMISSION_SEARCH_ROLE_BY_ID", << RegisterLog("denied"), Return >>),
    IfRegisterLogFails("attempt", << JSON(500, "error", "text"), Return >>),
    Call("SearchRolesByID", "search", "role"),
    If("err", << RegisterLog("outcome"), JSON(500, "error", "text"), Return >>),
    RegisterLog("outcome"),
    JSON(200, "", "dto"),
    Return >>

\* lines 424-448
RoleController_SearchRolesByName == <<
    IfNotCheckPermission("PERMISSION_SEARCH_ROLE_BY_NAME", << RegisterLog("denied"), Return >>),
    IfRegisterLogFails("attempt", << JSON(500, "error", "text"), Return >>),
    Call("SearchRolesByName", "searchNK", "role"),
    If("err", << RegisterLog("outcome"), JSON(500, "error", "text"), Return >>),
    RegisterLog("outcome"),
    JSON(200, "", "dto"),
    Return >>

(***************************************************************************)
(* src/controllers/tax_type_controller.go                                  *)
(***************************************************************************)
\* lines 37-52
TaxTypeController_GetTaxTypeByID == <<
    IfNotCheckPermission("PERMISSION_GET_TAX_TYPE_BY_ID", << Return >>),
    Call("GetTaxTypeByID", "get", "taxtype"),
    If("err", << JSON(404, "error", "text"), Return >>),
    JSON(200, "", "dto"),
    Return >>

\* lines 64-77
TaxTypeController_GetAllTaxTypes == <<
    IfNotCheckPermission("PERMISSION_GET_ALL_TAX_TYPES", << Return >>),
    Call("GetAllTaxTypes", "list", "taxtype"),
    If("err", << JSON(500, "error", "text"), Return >>),
    JSON(200, "", "dto"),
    Return >>

\* lines 92-120
TaxTypeController_CreateTaxType == <<
    IfRegisterLogFails("attempt", << JSON(500, "error", "text"), Return >>),
    IfNotCheckPermission("PERMISSION_CREATE_TAX_TYPE", << RegisterLog("denied"), Return >>),
    IfInvalid("json", << RegisterLog("outcome"), JSON(400, "error", "text"), Return >>),
    Call("CreateTaxType", "create", "taxtype"),
    If("err", << RegisterLog("outcome"), JSON(500, "error", "text"), Return >>),
    RegisterLog("outcome"),
    JSON(201, "", "dto"),
    Return >>

(***************************************************************************)
(* src/controllers/identifier_type_controller.go                           *)
(***************************************************************************)
\* GetAllIdentifierTypes recording its success after answering
IdentifierTypeController_GetAllIdentifierTypes_LogsAfterAnswer == <<
    IfRegisterLogFails("attempt", << JSON(500, "error", "text"), Return >>),
    IfNotCheckPermission("PERMISSION_GET_ALL_IDENTIFIER_TYPES", <<
        RegisterLog("denied"),
        JSON(403, "error", "text"),
        Return
    >>),
    Call("GetAllIdentifierTypes", "list", "identifiertype"),
    If("err", << RegisterLog("outcome"), JSON(500, "error", "text"), Return >>),
    JSON(200, "", "dto"),
    RegisterLog("outcome"),
    Return >>

\* GetAllIdentifierTypes answering a failed listing without returning
IdentifierTypeController_GetAllIdentifierTypes_AnswersTwice == <<
    IfRegisterLogFails("attempt", << JSON(500, "error", "text"), Return >>),
    IfNotCheckPermission("PERMISSION_GET_ALL_IDENTIFIER_TYPES", <<
        RegisterLog("denied"),
        JSON(403, "error", "text"),
        Return
    >>),
    Call("GetAllIdentifierTypes", "list", "identifiertype"),
    If("err", << RegisterLog("outcome"), JSON(500, "error", "text") >>),
    RegisterLog("outcome"),
    JSON(200, "", "dto"),
    Return >>

\* lines 33-56
IdentifierTypeController_GetAllIdentifierTypes == <<
    IfRegisterLogFails("attempt", << JSON(500, "error", "text"), Return >>),
    IfNotCheckPermission("PERMISSION_GET_ALL_IDENTIFIER_TYPES", <<
        RegisterLog("denied"),
        JSON(403, "error", "text"),
        Return
    >>),
    Call("GetAllIdentifierTypes", "list", "identifiertype"),
    If("err", << RegisterLog("outcome"), JSON(500, "error", "text"), Return >>),
    RegisterLog("outcome"),
    JSON(200, "", "dto"),
    Return >>

\* lines 70-95
IdentifierTypeController_GetIdentifierTypeByID == <<
    IfRegisterLogFails("attempt", << JSON(500, "error", "text"), Return >>),
    IfNotCheckPermission("PERMISSION_GET_IDENTIFIER_TYPE_BY_ID", <<
        RegisterLog("denied"),
        JSON(403, "error", "text"),
        Return
    >>),
    Call("GetIdentifierTypeByID", "get", "identifiertype"),
    If("err", << RegisterLog("outcome"), JSON(404, "error", "text"), Return >>),
    RegisterLog("outcome"),
    JSON(200, "", "dto"),
    Return >>

(***************************************************************************)
(* src/controllers/user_credential_validation_controller.go                *)
(***************************************************************************)
\* ValidateUserCredentials answering an inactive account with 423 (Locked)
UserCredentialValidationController_ValidateUserCredentials_InactiveIs423 == <<
    IfRegisterLogFails("attempt", << JSON(500, "error", "text"), Return >>),
    IfInvalid("json", << RegisterLog("outcome"), JSON(400, "error", "text"), Return >>),
    Call("ValidateUserCredentials", "login", "user"),
    If("err", <<
        If("inactive", << RegisterLog("outcome"), JSON(423, "error", "text"), Return >>),
        RegisterLog("outcome"),
        JSON(401, "error", "text"),
        Return
    >>),
    RegisterLog("outcome"),
    JSON(200, "message", "text"),
    Return >>

\* ValidateUserCredentials answering every service error alike
UserCredentialValidationController_ValidateUserCredentials_InactiveIs401 == <<
    IfRegisterLogFails("attempt", << JSON(500, "error", "text"), Return >>),
    IfInvalid("json", << RegisterLog("outcome"), JSON(400, "error", "text"), Return >>),
    Call("ValidateUserCredentials", "login", "user"),
    If("err", <<
        RegisterLog("outcome"),
        JSON(401, "error", "text"),
        Return
    >>),
    RegisterLog("outcome"),
    JSON(200, "message", "text"),
    Return >>

\* lines 42-75
UserCredentialValidationController_ValidateUserCredentials == <<
    IfRegisterLogFails("attempt", << JSON(500, "error", "text"), Return >>),
    IfInvalid("json", << RegisterLog("outcome"), JSON(400, "error", "text"), Return >>),
    Call("ValidateUserCredentials", "login", "user"),
    If("err", <<
        If("inactive", << RegisterLog("outcome"), JSON(403, "error", "text"), Return >>),
        RegisterLog("outcome"),
        JSON(401, "error", "text"),
        Return
    >>),
    RegisterLog("outcome"),
    JSON(200, "message", "text"),
    Return >>

(***************************************************************************)
(* src/controllers/comment_controller.go                                   *)
(***************************************************************************)
\* lines 41-89
CommentController_GetCommentByID == <<
    IfRegisterLogFails("attempt", << JSON(500, "error", "text"), Return >>),
    IfNotCheckPermission("PERMISSION_GET_COMMENT_BY_ID", << RegisterLog("denied"), Return >>),
    IfInvalid("atoi", << RegisterLog("outcome"), JSON(400, "error", "text"), Return >>),
    Call("GetCommentByID", "get", "comment"),
    If("err", << RegisterLog("outcome"), JSON(500, "error", "text"), Return >>),
    If("nil", << RegisterLog("outcome"), JSON(404, "error", "text"), Return >>),
    RegisterLog("outcome"),
    JSON(200, "", "dto"),
    Return >>

\* lines 102-138
CommentController_GetAllComments == <<
    IfRegisterLogFails("attempt", << JSON(500, "error", "text"), Return >>),
    IfNotCheckPermission("PERMISSION_GET_ALL_COMMENTS", << RegisterLog("denied"), Return >>),
    Call("GetAllComments", "list", "comment"),
    If("err", << RegisterLog("outcome"), JSON(500, "error", "text"), Return >>),
    RegisterLog("outcome"),
    JSON(200, "", "dto"),
    Return >>

\* lines 153-196
CommentController_SearchCommentsByEmail == <<
    IfRegisterLogFails("attempt", << JSON(500, "error", "text"), Return >>),
    IfNotCheckPermission("PERMISSION_SEARCH_COMMENTS_BY_EMAIL", << RegisterLog("denied"), Return >>),
    IfInvalid("nonempty", << RegisterLog("outcome"), JSON(400, "error", "text"), Return >>),
    Call("SearchCommentsByEmail", "searchNK", "comment"),
    If("err", << RegisterLog("outcome"), JSON(500, "error", "text"), Return >>),
    RegisterLog("outcome"),
    JSON(200, "", "dto"),
    Return >>

\* lines 211-260
CommentController_CreateComment == <<
    IfRegisterLogFails("attempt", << JSON(500, "error", "text"), Return >>),
    IfNotCheckPermission("PERMISSION_CREATE_COMMENT", << RegisterLog("denied"), Return >>),
    IfInvalid("json", << RegisterLog("outcome"), JSON(400, "error", "rawerr"), Return >>),
    Call("CreateComment", "create", "comment"),
    If("err", << RegisterLog("outcome"), JSON(500, "error", "text"), Return >>),
    RegisterLog("outcome"),
    JSON(201, "", "dto"),
    Return >>

\* lines 277-340
CommentController_UpdateComment == <<
    IfNotCheckPermission("PERMISSION_UPDATE_COMMENT", << RegisterLog("denied"), Return >>),
    IfInvalid("atoi", << RegisterLog("outcome"), JSON(400, "error", "text"), Return >>),
    IfInvalid("json", << RegisterLog("outcome"), JSON(400, "error", "rawerr"), Return >>),
    Call("GetCommentByID", "get", "comment"),
    If("err", <<
        If("notfound", << RegisterLog("outcome"), JSON(404, "error", "text"), Return >>),
        RegisterLog("outcome"),
        JSON(500, "error", "text"),
        Return
    >>),
    Call("UpdateComment", "update", "comment"),
    If("err", << RegisterLog("outcome"), JSON(500, "error", "text"), Return >>),
    RegisterLog("outcome"),
    JSON(200, "", "dto"),
    Return >>

\* lines 356-395
CommentController_SearchCommentsByID == <<
    IfNotCheckPermission("PERMISSION_SEARCH_COMMENTS_BY_ID", << RegisterLog("denied"), Return >>),
    Call("SearchCommentsByID", "search", "comment"),
    If("err", << RegisterLog("outcome"), JSON(500, "error", "text"), Return >>),
    If("empty", << RegisterLog("outcome"), JSON(404, "message", "text"), Return >>),
    RegisterLog("outcome"),
    JSON(200, "", "dto"),
    Return >>

\* lines 411-450
CommentController_SearchCommentsByName == <<
    IfNotCheckPermission("PERMISSION_SEARCH_COMMENTS_BY_NAME", << RegisterLog("denied"), Return >>),
    Call("SearchCommentsByName", "searchNK", "comment"),
    If("err", << RegisterLog("outcome"), JSON(500, "error", "text"), Return >>),
    If("empty", << RegisterLog("outcome"), JSON(404, "message", "text"), Return >>),
    RegisterLog("outcome"),
    JSON(200, "", "dto"),
    Return >>

(***************************************************************************)
(* src/controllers/invoice_controller.go                                   *)
(***************************************************************************)
\* lines 41-83
InvoiceController_GetAllInvoices == <<
    IfRegisterLogFails("attempt", << JSON(500, "error", "text"), Return >>),
    IfNotCheckPermission("PERMISSION_GET_ALL_INVOICES", << RegisterLog("denied"), Return >>),
    Call("GetAllInvoices", "list", "invoice"),
    If("err", << RegisterLog("outcome"), JSON(500, "error", "text"), Return >>),
    If("empty", << RegisterLog("outcome"), JSON(404, "error", "text"), Return >>),
    RegisterLog("outcome"),
    JSON(200, "", "dto"),
    Return >>

\* lines 98-139
InvoiceController_GetInvoiceByID == <<
    IfRegisterLogFails("attempt", << JSON(500, "error", "text"), Return >>),
    IfNotCheckPermission("PERMISSION_GET_INVOICE_BY_ID", << RegisterLog("denied"), Return >>),
    IfInvalid("atoi", << RegisterLog("outcome"), JSON(400, "error", "text"), Return >>),
    Call("GetInvoiceByID", "get", "invoice"),
    If("err", << RegisterLog("outcome"), JSON(404, "error", "text"), Return >>),
    RegisterLog("outcome"),
    JSON(200, "", "dto"),
    Return >>

\* lines 154-198
InvoiceController_SearchInvoiceByID == <<
    IfRegisterLogFails("attempt", << JSON(500, "error", "text"), Return >>),
    IfNotCheckPermission("PERMISSION_SEARCH_INVOICE_BY_ID", << RegisterLog("denied"), Return >>),
    IfInvalid("nonempty", << RegisterLog("outcome"), JSON(400, "error", "text"), Return >>),
    Call("SearchInvoiceByID", "search", "invoice"),
    If("err", << RegisterLog("outcome"), JSON(500, "error", "text"), Return >>),
    RegisterLog("outcome"),
    JSON(200, "", "dto"),
    Return >>

\* lines 213-257
InvoiceController_SearchInvoiceByCustomerPersonalId == <<
    IfRegisterLogFails("attempt", << JSON(500, "error", "text"), Return >>),
    IfNotCheckPermission("PERMISSION_SEARCH_INVOICE_BY_CUSTOMER_PERSONAL_ID", <<
        RegisterLog("denied"),
        Return
    >>),
    IfInvalid("nonempty", << RegisterLog("outcome"), JSON(400, "error", "text"), Return >>),
    Call("SearchInvoiceByCustomerPersonalId", "searchNK", "invoice"),
    If("err", << RegisterLog("outcome"), JSON(500, "error", "text"), Return >>),
    RegisterLog("outcome"),
    JSON(200, "", "dto"),
    Return >>

\* lines 272-312
InvoiceController_CreateInvoice == <<
    IfRegisterLogFails("attempt", << JSON(500, "error", "text"), Return >>),
    IfNotCheckPermission("PERMISSION_CREATE_INVOICE", << RegisterLog("denied"), Return >>),
    IfInvalid("json", << RegisterLog("outcome"), JSON(400, "error", "text"), Return >>),
    Call("CreateInvoice", "create", "invoice"),
    If("err", << RegisterLog("outcome"), JSON(500, "error", "rawerr"), Return >>),
    RegisterLog("outcome"),
    JSON(201, "", "dto"),
    Return >>

(***************************************************************************)
(* src/controllers/order_state_type_controller.go                          *)
(***************************************************************************)
\* lines 34-59
OrderStateTypeController_GetOrderStateTypeByID == <<
    IfRegisterLogFails("attempt", << JSON(500, "error", "text"), Return >>),
    IfNotCheckPermission("PERMISSION_GET_ORDER_STATE_TYPE_BY_ID", <<
        RegisterLog("denied"),
        JSON(403, "error", "text"),
        Return
    >>),
    Call("GetOrderStateTypeByID", "get", "orderstatetype"),
    If("err", << RegisterLog("outcome"), JSON(404, "error", "text"), Return >>),
    RegisterLog("outcome"),
    JSON(200, "", "dto"),
    Return >>

\* lines 71-94
OrderStateTypeController_GetAllOrderStateTypes == <<
    IfRegisterLogFails("attempt", << JSON(500, "error", "text"), Return >>),
    IfNotCheckPermission("PERMISSION_GET_ALL_ORDER_STATE_TYPES", <<
        RegisterLog("denied"),
        JSON(403, "error", "text"),
        Return
    >>),
    Call("GetAllOrderStateTypes", "list", "orderstatetype"),
    If("err", << RegisterLog("outcome"), JSON(500, "error", "text"), Return >>),
    RegisterLog("outcome"),
    JSON(200, "", "dto"),
    Return >>

\* lines 133-168
ExternalSaleController_GetExternalSaleByID == <<
    IfRegisterLogFails("attempt", << JSON(500, "error", "text"), Return >>),
    IfNotCheckPermission("PERMISSION_GET_EXTERNAL_SALE_BY_ID", << RegisterLog("denied"), Return >>),
    Call("GetExternalSaleByID", "get", "externalsale"),
    If("err", << RegisterLog("outcome"), JSON(404, "error", "text"), Return >>),
    RegisterLog("outcome"),
    JSON(200, "", "dto"),
    Return >>

\* lines 181-219
ExternalSaleController_GetAllExternalSales == <<
    IfRegisterLogFails("attempt", << JSON(500, "error", "text"), Return >>),
    IfNotCheckPermission("PERMISSION_GET_ALL_EXTERNAL_SALES", << RegisterLog("denied"), Return >>),
    Call("GetAllExternalSales", "list", "externalsale"),
    If("err", << RegisterLog("outcome"), JSON(500, "error", "text"), Return >>),
    RegisterLog("outcome"),
    JSON(200, "", "dto"),
    Return >>

\* lines 233-287
ExternalSaleController_CreateExternalSale == <<
    IfRegisterLogFails("attempt", << JSON(500, "error", "text"), Return >>),
    IfInvalid("json", << RegisterLog("outcome"), JSON(400, "error", "text"), Return >>),
    RegisterLog("info"),
    Call("CreateExternalSale", "create", "externalsale"),
    If("err", << RegisterLog("outcome"), JSON(500, "error", "text"), Return >>),
    RegisterLog("outcome"),
    JSON(201, "", "dto"),
    Return >>

(***************************************************************************)
(* src/controllers/user_type_controller.go                                 *)
(***************************************************************************)
\* lines 38-86
UserTypeController_GetUserTypeByID == <<
    IfNotCheckPermission("PERMISSION_GET_USER_TYPE_BY_ID", << Return >>),
    IfRegisterLogFails("attempt", << JSON(500, "error", "text"), Return >>),
    IfInvalid("sscanf", << RegisterLog("outcome"), JSON(400, "error", "text"), Return >>),
    Call("GetUserTypeByID", "get", "usertype"),
    If("err", << RegisterLog("outcome"), JSON(404, "error", "text"), Return >>),
    Call("GetRolesForUserType", "list", "usertype"),
    If("err", << RegisterLog("outcome"), JSON(500, "error", "text"), Return >>),
    RegisterLog("outcome"),
    JSON(200, "", "dto"),
    Return >>

\* lines 99-143
UserTypeController_GetAllUserTypes == <<
    IfNotCheckPermission("PERMISSION_GET_ALL_USER_TYPES", << Return >>),
    IfRegisterLogFails("attempt", << JSON(500, "error", "text"), Return >>),
    Call("ObtainAllUserTypes", "list", "usertype"),
    If("err", << RegisterLog("outcome"), JSON(500, "error", "text"), Return >>),
    ForEach(<<
        Call("GetRolesForUserType", "list", "usertype"),
        If("err", << RegisterLog("outcome"), JSON(500, "error", "text"), Return >>)
    >>),
    RegisterLog("outcome"),
    JSON(200, "", "dto"),
    Return >>

\* lines 158-188
UserTypeController_ExistsUserType == <<
    IfNotCheckPermission("PERMISSION_EXIST_USER_TYPE", << Return >>),
    IfRegisterLogFails("attempt", << JSON(500, "error", "text"), Return >>),
    IfInvalid("sscanf", << RegisterLog("outcome"), JSON(400, "error", "text"), Return >>),
    Call("Exists", "exists", "usertype"),
    If("err", << RegisterLog("outcome"), JSON(500, "error", "text"), Return >>),
    RegisterLog("outcome"),
    JSON(200, "exists", "bool"),
    Return >>

\* lines 203-244
UserTypeController_SearchUserTypesByID == <<
    IfNotCheckPermission("PERMISSION_SEARCH_USER_TYPES_BY_ID", << Return >>),
    IfRegisterLogFails("attempt", << JSON(500, "error", "text"), Return >>),
    Call("SearchUserTypesByID", "search", "usertype"),
    If("err", << RegisterLog("outcome"), JSON(500, "error", "text"), Return >>),
    ForEach(<< Call("GetRolesForUserType", "list", "usertype") >>),
    RegisterLog("outcome"),
    JSON(200, "", "dto"),
    Return >>

\* lines 259-300
UserTypeController_SearchUserTypesByName == <<
    IfNotCheckPermission("PERMISSION_SEARCH_USER_TYPES_BY_NAME", << Return >>),
    IfRegisterLogFails("attempt", << JSON(500, "error", "text"), Return >>),
    Call("SearchUserTypesByName", "searchNK", "usertype"),
    If("err", << RegisterLog("outcome"), JSON(500, "error", "text"), Return >>),
    ForEach(<< Call("GetRolesForUserType", "list", "usertype") >>),
    RegisterLog("outcome"),
    JSON(200, "", "dto"),
    Return >>

\* lines 335-358
ItemTypeController_GetItemTypeByID == <<
    IfRegisterLogFails("attempt", << JSON(500, "error", "text"), Return >>),
    IfNotCheckPermission("PERMISSION_GET_ITEM_BY_ID", << RegisterLog("denied"), Return >>),
    Call("GetItemTypeByID", "get", "itemtype"),
    If("err", << RegisterLog("outcome"), JSON(404, "error", "text"), Return >>),
    RegisterLog("outcome"),
    JSON(200, "", "dto"),
    Return >>

\* lines 369-390
ItemTypeController_GetItemTypes == <<
    IfRegisterLogFails("attempt", << JSON(500, "error", "text"), Return >>),
    IfNotCheckPermission("PERMISSION_GET_ITEM_TYPES", << RegisterLog("denied"), Return >>),
    Call("GetAllItemTypes", "list", "itemtype"),
    If("err", << RegisterLog("outcome"), JSON(500, "error", "text"), Return >>),
    RegisterLog("outcome"),
    JSON(200, "", "dto"),
    Return >>

(***************************************************************************)
(* src/unnamed/part_000                                                    *)
(***************************************************************************)
\* lines 176-204
AppointmentController_GetAppointmentByID == <<
    IfRegisterLogFails("attempt", << JSON(500, "error", "text"), Return >>),
    IfNotCheckPermission("PERMISSION_GET_APPOINTMENT_BY_ID", << RegisterLog("denied"), Return >>),
    IfInvalid("atoi", << RegisterLog("outcome"), JSON(400, "error", "text"), Return >>),
    Call("GetAppointmentByID", "get", "appointment"),
    If("err", << RegisterLog("outcome"), JSON(404, "error", "text"), Return >>),
    RegisterLog("outcome"),
    JSON(200, "", "dto"),
    Return >>

\* lines 217-238
AppointmentController_GetAllAppointments == <<
    IfRegisterLogFails("attempt", << JSON(500, "error", "text"), Return >>),
    IfNotCheckPermission("PERMISSION_GET_ALL_APPOINTMENTS", << RegisterLog("denied"), Return >>),
    Call("GetAllAppointments", "list", "appointment"),
    If("err", << RegisterLog("outcome"), JSON(500, "error", "text"), Return >>),
    RegisterLog("outcome"),
    JSON(200, "", "dto"),
    Return >>

\* lines 253-284
AppointmentController_SearchAppointmentsByID == <<
    IfRegisterLogFails("attempt", << JSON(500, "error", "text"), Return >>),
    IfNotCheckPermission("PERMISSION_SEARCH_APPOINTMENTS_BY_ID", << RegisterLog("denied"), Return >>),
    Call("SearchAppointmentsByID", "search", "appointment"),
    If("err", << RegisterLog("outcome"), JSON(500, "error", "text"), Return >>),
    If("empty", << RegisterLog("outcome"), JSON(404, "message", "text"), Return >>),
    RegisterLog("outcome"),
    JSON(200, "", "dto"),
    Return >>

\* lines 299-330
AppointmentController_SearchAppointmentsByCustomerID == <<
    IfRegisterLogFails("attempt", << JSON(500, "error", "text"), Return >>),
    IfNotCheckPermission("PERMISSION_GET_APPOINTMENT_BY_CUSTOMER_ID", << RegisterLog("denied"), Return >>),
    Call("SearchAppointmentsByCustomerID", "searchNK", "appointment"),
    If("err", << RegisterLog("outcome"), JSON(500, "error", "text"), Return >>),
    If("empty", << RegisterLog("outcome"), JSON(404, "message", "text"), Return >>),
    RegisterLog("outcome"),
    JSON(200, "", "dto"),
    Return >>

\* lines 345-374
AppointmentController_SearchAppointmentsByState == <<
    IfRegisterLogFails("attempt", << JSON(500, "error", "text"), Return >>),
    IfNotCheckPermission("PERMISSION_SEARCH_APPOINTMENT_BY_STATE", << RegisterLog("denied"), Return >>),
    IfInvalid("bool", << RegisterLog("outcome"), JSON(400, "error", "text"), Return >>),
    Call("SearchAppointmentsByState", "searchNK", "appointment"),
    If("err", << RegisterLog("outcome"), JSON(500, "error", "text"), Return >>),
    RegisterLog("outcome"),
    JSON(200, "", "dto"),
    Return >>

\* lines 388-417
AppointmentController_GetAppointmentsByCustomerID == <<
    IfRegisterLogFails("attempt", << JSON(500, "error", "text"), Return >>),
    IfNotCheckPermission("PERMISSION_GET_APPOINTMENT_BY_CUSTOMER_ID", << RegisterLog("denied"), Return >>),
    IfInvalid("atoi", << RegisterLog("outcome"), JSON(400, "error", "text"), Return >>),
    Call("GetAppointmentsByCustomerID", "searchNK", "appointment"),
    If("err", << RegisterLog("outcome"), JSON(500, "error", "text"), Return >>),
    RegisterLog("outcome"),
    JSON(200, "", "dto"),
    Return >>

\* lines 432-466
AppointmentController_CreateAppointment == <<
    IfRegisterLogFails("attempt", << JSON(500, "error", "text"), Return >>),
    IfNotCheckPermission("PERMISSION_CREATE_APPOINTMENT", <<
        RegisterLog("denied"),
        JSON(403, "error", "text"),
        Return
    >>),
    IfInvalid("json", << RegisterLog("outcome"), JSON(400, "error", "text"), Return >>),
    Call("CreateAppointment", "createLimited", "appointment"),
    If("err", <<
        IfElse("limit", <<
            RegisterLog("outcome"),
            JSON(400, "error", "text")
        >>, << RegisterLog("outcome"), JSON(500, "error", "text") >>),
        Return
    >>),
    RegisterLog("outcome"),
    JSON(201, "", "dto"),
    Return >>

\* lines 483-527
AppointmentController_UpdateAppointment == <<
    IfRegisterLogFails("attempt", << JSON(500, "error", "text"), Return >>),
    IfNotCheckPermission("PERMISSION_UPDATE_APPOINTMENT", << RegisterLog("denied"), Return >>),
    IfInvalid("atoi", << RegisterLog("outcome"), JSON(400, "error", "text"), Return >>),
    IfInvalid("json", << RegisterLog("outcome"), JSON(400, "error", "text"), Return >>),
    Call("UpdateAppointment", "update", "appointment"),
    If("err", <<
        If("notfound", << RegisterLog("outcome"), JSON(404, "error", "text"), Return >>),
        RegisterLog("outcome"),
        JSON(500, "error", "text"),
        Return
    >>),
    RegisterLog("outcome"),
    JSON(200, "", "dto"),
    Return >>

\* lines 544-591
AppointmentController_GetAppointmentByCustomerIDAndDate == <<
    IfRegisterLogFails("attempt", << JSON(500, "error", "text"), Return >>),
    IfNotCheckPermission("PERMISSION_GET_APPOINTMENTS_BY_CUSTOMERID_AND_DATE", <<
        RegisterLog("denied"),
        Return
    >>),
    IfInvalid("atoi", << RegisterLog("outcome"), JSON(400, "error", "text"), Return >>),
    IfInvalid("date", << RegisterLog("outcome"), JSON(400, "error", "text"), Return >>),
    Call("GetAppointmentByCustomerIDAndDate", "getNK", "appointment"),
    If("err", << RegisterLog("outcome"), JSON(404, "error", "text"), Return >>),
    RegisterLog("outcome"),
    JSON(200, "", "dto"),
    Return >>

\* lines 607-642
AppointmentController_DeleteAppointmentByID == <<
    IfRegisterLogFails("attempt", << JSON(500, "error", "text"), Return >>),
    IfNotCheckPermission("PERMISSION_DELETE_APPOINTMENT", <<
        RegisterLog("denied"),
        JSON(403, "error", "text"),
        Return
    >>),
    IfInvalid("atoi", << RegisterLog("outcome"), JSON(400, "error", "text"), Return >>),
    Call("DeleteAppointmentByID", "delete", "appointment"),
    If("err", <<
        IfElse("notfound", <<
            RegisterLog("outcome"),
            JSON(404, "error", "text")
        >>, << RegisterLog("outcome"), JSON(500, "error", "rawerr") >>),
        Return
    >>),
    RegisterLog("outcome"),
    JSON(200, "message", "text"),
    Return >>

\* lines 657-685
AppointmentController_GetAppointmentsByHourRange == <<
    IfNotCheckPermission("PERMISSION_GET_APPOINTMENTS_BY_HOUR", <<
        RegisterLog("denied"),
        JSON(403, "error", "text"),
        Return
    >>),
    IfInvalid("nonempty", << JSON(400, "error", "text"), Return >>),
    IfInvalid("date", << JSON(400, "error", "text"), Return >>),
    Call("GetHourlyAppointmentCount", "list", "appointment"),
    If("err", << JSON(500, "error", "rawerr"), Return >>),
    JSON(200, "date", "value"),
    Return >>

(***************************************************************************)
(* src/unnamed/part_001                                                    *)
(***************************************************************************)
\* lines 40-76
EmployeeController_GetEmployeeByID == <<
    IfRegisterLogFails("attempt", << JSON(500, "error", "text"), Return >>),
    IfNotCheckPermission("PERMISSION_GET_EMPLOYEE_BY_ID", <<
        RegisterLog("denied"),
        JSON(403, "error", "text"),
        Return
    >>),
    Call("GetEmployeeByID", "get", "employee"),
    If("err", << RegisterLog("outcome"), JSON(404, "error", "text"), Return >>),
    RegisterLog("outcome"),
    JSON(200, "", "dto"),
    Return >>

\* lines 89-127
EmployeeController_GetAllEmployees == <<
    IfRegisterLogFails("attempt", << JSON(500, "error", "text"), Return >>),
    IfNotCheckPermission("PERMISSION_GET_ALL_EMPLOYEES", <<
        RegisterLog("denied"),
        JSON(403, "error", "text"),
        Return
    >>),
    Call("GetAllEmployees", "list", "employee"),
    If("err", << RegisterLog("outcome"), JSON(500, "error", "text"), Return >>),
    RegisterLog("outcome"),
    JSON(200, "", "dto"),
    Return >>

\* lines 142-184
EmployeeController_SearchEmployeesByID == <<
    IfRegisterLogFails("attempt", << JSON(500, "error", "text"), Return >>),
    IfNotCheckPermission("PERMISSION_SEARCH_EMPLOYEES_BY_ID", <<
        RegisterLog("denied"),
        JSON(403, "error", "text"),
        Return
    >>),
    Call("SearchEmployeesByID", "search", "employee"),
    If("err", << RegisterLog("outcome"), JSON(500, "error", "text"), Return >>),
    If("empty", << RegisterLog("outcome"), JSON(404, "message", "text"), Return >>),
    RegisterLog("outcome"),
    JSON(200, "", "dto"),
    Return >>

\* lines 200-251
EmployeeController_SearchEmployeesByName == <<
    IfRegisterLogFails("attempt", << JSON(500, "error", "text"), Return >>),
    IfNotCheckPermission("PERMISSION_SEARCH_EMPLOYEES_BY_NAME", <<
        RegisterLog("denied"),
        JSON(403, "error", "text"),
        Return
    >>),
    IfInvalid("nonempty", << RegisterLog("outcome"), JSON(400, "error", "text"), Return >>),
    Call("SearchEmployeesByName", "searchNK", "employee"),
    If("err", << RegisterLog("outcome"), JSON(500, "error", "text"), Return >>),
    If("empty", << RegisterLog("outcome"), JSON(404, "message", "text"), Return >>),
    RegisterLog("outcome"),
    JSON(200, "", "dto"),
    Return >>

\* lines 267-331
EmployeeController_CreateEmployee == <<
    IfRegisterLogFails("attempt", << JSON(500, "error", "text"), Return >>),
    IfNotCheckPermission("PERMISSION_CREATE_EMPLOYEE", <<
        RegisterLog("denied"),
        JSON(403, "error", "text"),
        Return
    >>),
    IfInvalid("json", << RegisterLog("outcome"), JSON(400, "error", "rawerr"), Return >>),
    Call("GetEmployeeByID", "get", "employee"),
    If("notnil", << RegisterLog("outcome"), JSON(409, "error", "text"), Return >>),
    IfInvalid("fields", << RegisterLog("outcome"), JSON(400, "error", "text"), Return >>),
    Call("CreateEmployee", "createNK", "employee"),
    If("err", << RegisterLog("outcome"), JSON(500, "error", "rawerr"), Return >>),
    RegisterLog("outcome"),
    JSON(201, "", "dto"),
    Return >>

\* lines 348-412
EmployeeController_UpdateEmployee == <<
    IfRegisterLogFails("attempt", << JSON(500, "error", "text"), Return >>),
    IfNotCheckPermission("PERMISSION_UPDATE_EMPLOYEE", <<
        RegisterLog("denied"),
        JSON(403, "error", "text"),
        Return
    >>),
    IfInvalid("json", << RegisterLog("outcome"), JSON(400, "error", "rawerr"), Return >>),
    Call("GetEmployeeByID", "get", "employee"),
    If("err", <<
        If("notfound", << RegisterLog("outcome"), JSON(404, "error", "text"), Return >>),
        RegisterLog("outcome"),
        JSON(500, "error", "text"),
        Return
    >>),
    Call("UpdateEmployee", "update", "employee"),
    If("err", << RegisterLog("outcome"), JSON(500, "error", "text"), Return >>),
    RegisterLog("outcome"),
    JSON(200, "", "dto"),
    Return >>

(***************************************************************************)
(* src/unnamed/part_002                                                    *)
(***************************************************************************)
\* lines 39-69
AdditionalExpenseController_GetAdditionalExpenseByID == <<
    IfRegisterLogFails("attempt", << JSON(500, "error", "text"), Return >>),
    IfNotCheckPermission("PERMISSION_GET_ADDITIONAL_EXPENSE_BY_ID", << RegisterLog("denied"), Return >>),
    Call("GetAdditionalExpenseByID", "get", "additionalexpense"),
    If("err", << RegisterLog("outcome"), JSON(500, "error", "text"), Return >>),
    If("nil", << RegisterLog("outcome"), JSON(404, "error", "text"), Return >>),
    RegisterLog("outcome"),
    JSON(200, "", "dto"),
    Return >>

\* lines 82-105
AdditionalExpenseController_GetAllAdditionalExpenses == <<
    IfRegisterLogFails("attempt", << JSON(500, "error", "text"), Return >>),
    IfNotCheckPermission("PERMISSION_GET_ALL_ADDITIONAL_EXPENSE", <<
        RegisterLog("denied"),
        JSON(403, "error", "text"),
        Return
    >>),
    Call("GetAllAdditionalExpenses", "list", "additionalexpense"),
    If("err", << RegisterLog("outcome"), JSON(500, "error", "text"), Return >>),
    RegisterLog("outcome"),
    JSON(200, "", "dto"),
    Return >>

\* lines 120-157
AdditionalExpenseController_CreateAdditionalExpense == <<
    IfRegisterLogFails("attempt", << JSON(500, "error", "text"), Return >>),
    IfNotCheckPermission("PERMISSION_CREATE_ADDITIONAL_EXPENSE", <<
        RegisterLog("denied"),
        JSON(403, "error", "text"),
        Return
    >>),
    IfInvalid("json", << RegisterLog("outcome"), JSON(400, "error", "text"), Return >>),
    Call("CreateAdditionalExpense", "create", "additionalexpense"),
    If("err", << RegisterLog("outcome"), JSON(500, "error", "text"), Return >>),
    RegisterLog("outcome"),
    JSON(201, "", "dto"),
    Return >>

\* lines 173-203
AdditionalExpenseController_DeleteAdditionalExpense == <<
    IfRegisterLogFails("attempt", << JSON(500, "error", "text"), Return >>),
    IfNotCheckPermission("PERMISSION_DELETE_ADDITIONAL_EXPENSE", <<
        RegisterLog("denied"),
        JSON(403, "error", "text"),
        Return
    >>),
    Call("DeleteAdditionalExpense", "delete", "additionalexpense"),
    If("err", <<
        If("notfound", << RegisterLog("outcome"), JSON(404, "error", "text"), Return >>),
        RegisterLog("outcome"),
        JSON(500, "error", "text"),
        Return
    >>),
    RegisterLog("outcome"),
    JSON(200, "message", "text"),
    Return >>

\* lines 220-264
AdditionalExpenseController_UpdateAdditionalExpense == <<
    IfRegisterLogFails("attempt", << JSON(500, "error", "text"), Return >>),
    IfNotCheckPermission("PERMISSION_UPDATE_ADDITIONAL_EXPENSE", <<
        RegisterLog("denied"),
        JSON(403, "error", "text"),
        Return
    >>),
    IfInvalid("json", << RegisterLog("outcome"), JSON(400, "error", "text"), Return >>),
    Call("GetAdditionalExpenseByID", "get", "additionalexpense"),
    If("err", << RegisterLog("outcome"), JSON(404, "error", "text"), Return >>),
    Call("UpdateAdditionalExpense", "update", "additionalexpense"),
    If("err", << RegisterLog("outcome"), JSON(500, "error", "text"), Return >>),
    RegisterLog("outcome"),
    JSON(200, "", "dto"),
    Return >>

(***************************************************************************)
(* src/unnamed/part_003                                                    *)
(***************************************************************************)
\* lines 38-59
CustomerController_GetAllCustomers == <<
    IfRegisterLogFails("attempt", << JSON(500, "error", "text"), Return >>),
    IfNotCheckPermission("PERMISSION_GET_ALL_CUSTOMERS", << RegisterLog("denied"), Return >>),
    Call("GetAllCustomers", "list", "customer"),
    If("err", << RegisterLog("outcome"), JSON(500, "error", "text"), Return >>),
    RegisterLog("outcome"),
    JSON(200, "", "dto"),
    Return >>

\* lines 75-104
CustomerController_GetCustomerByID == <<
    IfRegisterLogFails("attempt", << JSON(500, "error", "text"), Return >>),
    IfNotCheckPermission("PERMISSION_GET_CUSTOMER_BY_ID", << RegisterLog("denied"), Return >>),
    IfInvalid("atoi", << RegisterLog("outcome"), JSON(400, "error", "text"), Return >>),
    Call("GetCustomerByID", "get", "customer"),
    If("err", << RegisterLog("outcome"), JSON(404, "error", "text"), Return >>),
    RegisterLog("outcome"),
    JSON(200, "", "dto"),
    Return >>

\* lines 119-141
CustomerController_GetCustomerByCustomerID == <<
    IfRegisterLogFails("attempt", << JSON(500, "error", "text"), Return >>),
    IfNotCheckPermission("PERMISSION_GET_CUSTOMER_BY_CUSTOMERID", << RegisterLog("denied"), Return >>),
    Call("GetCustomerByCustomerID", "getNK", "customer"),
    If("err", << RegisterLog("outcome"), JSON(404, "error", "text"), Return >>),
    RegisterLog("outcome"),
    JSON(200, "", "dto"),
    Return >>

\* lines 156-196
CustomerController_CreateCustomer == <<
    IfRegisterLogFails("attempt", << JSON(500, "error", "text"), Return >>),
    IfNotCheckPermission("PERMISSION_CREATE_CUSTOMER", << RegisterLog("denied"), Return >>),
    IfInvalid("json", << RegisterLog("outcome"), JSON(400, "error", "text"), Return >>),
    Call("CreateCustomer", "create", "customer"),
    If("err", << RegisterLog("outcome"), JSON(500, "error", "text"), Return >>),
    RegisterLog("outcome"),
    JSON(201, "", "dto"),
    Return >>

\* lines 213-261
CustomerController_UpdateCustomer == <<
    IfRegisterLogFails("attempt", << JSON(500, "error", "text"), Return >>),
    IfNotCheckPermission("PERMISSION_UPDATE_CUSTOMER", << RegisterLog("denied"), Return >>),
    IfInvalid("atoi", << RegisterLog("outcome"), JSON(400, "error", "text"), Return >>),
    IfInvalid("json", << RegisterLog("outcome"), JSON(400, "error", "text"), Return >>),
    Call("UpdateCustomer", "update", "customer"),
    If("err", << RegisterLog("outcome"), JSON(500, "error", "text"), Return >>),
    RegisterLog("outcome"),
    JSON(200, "", "dto"),
    Return >>

\* lines 276-299
CustomerController_GetCustomerByEmail == <<
    IfRegisterLogFails("attempt", << JSON(500, "error", "text"), Return >>),
    IfNotCheckPermission("PERMISSION_GET_CUSTOMER_BY_EMAIL", << RegisterLog("denied"), Return >>),
    Call("GetCustomerByEmail", "getNK", "customer"),
    If("err", << RegisterLog("outcome"), JSON(404, "error", "text"), Return >>),
    RegisterLog("outcome"),
    JSON(200, "", "dto"),
    Return >>

\* lines 315-360
CustomerController_SearchCustomersByID == <<
    IfRegisterLogFails("attempt", << JSON(500, "error", "text"), Return >>),
    IfNotCheckPermission("PERMISSION_SEARCH_CUSTOMERS_BY_ID", << RegisterLog("denied"), Return >>),
    Call("SearchCustomersByID", "search", "customer"),
    If("err", << RegisterLog("outcome"), JSON(500, "error", "text"), Return >>),
    If("empty", << RegisterLog("outcome"), JSON(404, "message", "text"), Return >>),
    RegisterLog("outcome"),
    JSON(200, "", "dto"),
    Return >>

\* lines 376-421
CustomerController_SearchCustomersByName == <<
    IfRegisterLogFails("attempt", << JSON(500, "error", "text"), Return >>),
    IfNotCheckPermission("PERMISSION_SEARCH_CUSTOMERS_BY_NAME", << RegisterLog("denied"), Return >>),
    Call("SearchCustomersByName", "searchNK", "customer"),
    If("err", << RegisterLog("outcome"), JSON(500, "error", "text"), Return >>),
    If("empty", << RegisterLog("outcome"), JSON(404, "message", "text"), Return >>),
    RegisterLog("outcome"),
    JSON(200, "", "dto"),
    Return >>

\* lines 437-482
CustomerController_SearchCustomersByLastName == <<
    IfRegisterLogFails("attempt", << JSON(500, "error", "text"), Return >>),
    IfNotCheckPermission("PERMISSION_SEARCH_CUSTOMERS_BY_LASTNAME", << RegisterLog("denied"), Return >>),
    Call("SearchCustomersByLastName", "searchNK", "customer"),
    If("err", << RegisterLog("outcome"), JSON(500, "error", "text"), Return >>),
    If("empty", << RegisterLog("outcome"), JSON(404, "message", "text"), Return >>),
    RegisterLog("outcome"),
    JSON(200, "", "dto"),
    Return >>

(***************************************************************************)
(* src/unnamed/part_004                                                    *)
(***************************************************************************)
\* lines 42-74
ItemController_CheckItemStock == <<
    IfRegisterLogFails("attempt", << JSON(500, "error", "text"), Return >>),
    IfNotCheckPermission("PERMISSION_CHECK_ITEM_STOCK", << RegisterLog("denied"), Return >>),
    IfInvalid("quantity", << RegisterLog("outcome"), JSON(400, "error", "text"), Return >>),
    Call("HasEnoughStock", "exists", "item"),
    If("err", << RegisterLog("outcome"), JSON(500, "error", "text"), Return >>),
    RegisterLog("outcome"),
    JSON(200, "hasEnoughStock", "bool"),
    Return >>

\* lines 89-123
ItemController_GetItemByID == <<
    IfRegisterLogFails("attempt", << JSON(500, "error", "text"), Return >>),
    Call("GetItemByID", "get", "item"),
    If("err", << RegisterLog("outcome"), JSON(404, "error", "text"), Return >>),
    RegisterLog("outcome"),
    JSON(200, "", "dto"),
    Return >>

\* lines 135-173
ItemController_GetAllItems == <<
    IfRegisterLogFails("attempt", << JSON(500, "error", "text"), Return >>),
    Call("GetAllItems", "list", "item"),
    If("err", << RegisterLog("outcome"), JSON(500, "error", "text"), Return >>),
    RegisterLog("outcome"),
    JSON(200, "", "dto"),
    Return >>

\* lines 188-245
ItemController_SearchItemsByID == <<
    IfRegisterLogFails("attempt", << JSON(500, "error", "text"), Return >>),
    IfNotCheckPermission("PERMISSION_SEARCH_ITEMS_BY_ID", << RegisterLog("denied"), Return >>),
    IfInvalid("nonempty", << RegisterLog("outcome"), JSON(400, "error", "text"), Return >>),
    Call("SearchItemsByID", "search", "item"),
    If("err", << RegisterLog("outcome"), JSON(500, "error", "text"), Return >>),
    If("empty", << RegisterLog("outcome"), JSON(404, "message", "text"), Return >>),
    RegisterLog("outcome"),
    JSON(200, "", "dto"),
    Return >>

\* lines 260-317
ItemController_SearchItemsByName == <<
    IfRegisterLogFails("attempt", << JSON(500, "error", "text"), Return >>),
    IfNotCheckPermission("PERMISSION_SEARCH_ITEMS_BY_NAME", << RegisterLog("denied"), Return >>),
    IfInvalid("nonempty", << RegisterLog("outcome"), JSON(400, "error", "text"), Return >>),
    Call("SearchItemsByName", "searchNK", "item"),
    If("err", << RegisterLog("outcome"), JSON(500, "error", "text"), Return >>),
    If("empty", << RegisterLog("outcome"), JSON(404, "message", "text"), Return >>),
    RegisterLog("outcome"),
    JSON(200, "", "dto"),
    Return >>

\* lines 333-385
ItemController_UpdateItemState == <<
    IfRegisterLogFails("attempt", << JSON(500, "error", "text"), Return >>),
    IfNotCheckPermission("PERMISSION_UPDATE_ITEM_STATE", << RegisterLog("denied"), Return >>),
    RegisterLog("info"),
    IfInvalid("json", << RegisterLog("outcome"), JSON(400, "error", "text"), Return >>),
    Call("UpdateItemState", "update", "item"),
    If("err", << RegisterLog("outcome"), JSON(404, "error", "text"), Return >>),
    RegisterLog("outcome"),
    JSON(200, "", "dto"),
    Return >>

\* lines 401-473
ItemController_UpdateItem == <<
    IfRegisterLogFails("attempt", << JSON(500, "error", "text"), Return >>),
    IfNotCheckPermission("PERMISSION_UPDATE_ITEM", << RegisterLog("denied"), Return >>),
    RegisterLog("info"),
    IfInvalid("json", << RegisterLog("outcome"), JSON(400, "error", "text"), Return >>),
    Call("GetItemByID", "get", "item"),
    If("err", <<
        If("notfound", << RegisterLog("outcome"), JSON(404, "error", "text"), Return >>),
        RegisterLog("outcome"),
        JSON(500, "error", "text"),
        Return
    >>),
    Call("UpdateItem", "update", "item"),
    If("err", << RegisterLog("outcome"), JSON(500, "error", "text"), Return >>),
    RegisterLog("outcome"),
    JSON(200, "", "dto"),
    Return >>

\* lines 487-547
ItemController_CreateItem == <<
    IfRegisterLogFails("attempt", << JSON(500, "error", "text"), Return >>),
    IfNotCheckPermission("PERMISSION_CREATE_ITEM", << RegisterLog("denied"), Return >>),
    IfInvalid("json", << RegisterLog("outcome"), JSON(400, "error", "text"), Return >>),
    RegisterLog("info"),
    Call("CreateItem", "create", "item"),
    If("err", << RegisterLog("outcome"), JSON(500, "error", "text"), Return >>),
    RegisterLog("outcome"),
    JSON(201, "", "dto"),
    Return >>

(***************************************************************************)
(* src/unnamed/part_005                                                    *)
(***************************************************************************)
\* lines 35-59
UserStateTypeController_GetUserStateTypeByID == <<
    IfNotCheckPermission("PERMISSION_GET_USER_STATE_TYPE_BY_ID", << RegisterLog("denied"), Return >>),
    IfRegisterLogFails("attempt", << JSON(500, "error", "text"), Return >>),
    Call("GetUserStateTypeByID", "get", "userstatetype"),
    If("err", << JSON(404, "error", "text"), Return >>),
    RegisterLog("outcome"),
    JSON(200, "", "dto"),
    Return >>

\* lines 72-94
UserStateTypeController_GetAllUserStateTypes == <<
    IfNotCheckPermission("PERMISSION_GET_ALL_USER_STATE_TYPES", << RegisterLog("denied"), Return >>),
    IfRegisterLogFails("attempt", << JSON(500, "error", "text"), Return >>),
    Call("GetAllUserStateTypes", "list", "userstatetype"),
    If("err", << JSON(500, "error", "text"), Return >>),
    RegisterLog("outcome"),
    JSON(200, "", "dto"),
    Return >>

\* GetPermissionByID removing the permission it looks up
PermissionController_GetPermissionByID_Deletes == <<
    IfNotCheckPermission("PERMISSION_GET_PERMISSION_BY_ID", <<
        IfRegisterLogFails("denied", << JSON(500, "error", "text"), Return >>),
        Return
    >>),
    IfInvalid("sscanf", <<
        IfRegisterLogFails("outcome", << JSON(500, "error", "text"), Return >>),
        JSON(400, "error", "text"),
        Return
    >>),
    IfRegisterLogFails("attempt", << JSON(500, "error", "text"), Return >>),
    Call("DeletePermission", "delete", "permission"),
    If("err", <<
        IfRegisterLogFails("outcome", << JSON(500, "error", "text"), Return >>),
        JSON(404, "error", "text"),
        Return
    >>),
    IfRegisterLogFails("outcome", << JSON(500, "error", "text"), Return >>),
    JSON(200, "", "dto"),
    Return >>

\* lines 131-174
PermissionController_GetPermissionByID == <<
    IfNotCheckPermission("PERMISSION_GET_PERMISSION_BY_ID", <<
        IfRegisterLogFails("denied", << JSON(500, "error", "text"), Return >>),
        Return
    >>),
    IfInvalid("sscanf", <<
        IfRegisterLogFails("outcome", << JSON(500, "error", "text"), Return >>),
        JSON(400, "error", "text"),
        Return
    >>),
    IfRegisterLogFails("attempt", << JSON(500, "error", "text"), Return >>),
    Call("GetPermissionByID", "get", "permission"),
    If("err", <<
        IfRegisterLogFails("outcome", << JSON(500, "error", "text"), Return >>),
        JSON(404, "error", "text"),
        Return
    >>),
    IfRegisterLogFails("outcome", << JSON(500, "error", "text"), Return >>),
    JSON(200, "", "dto"),
    Return >>

\* lines 186-218
PermissionController_GetAllPermissions == <<
    IfNotCheckPermission("PERMISSION_GET_ALL_PERMISSIONS", <<
        IfRegisterLogFails("denied", << JSON(500, "error", "text"), Return >>),
        Return
    >>),
    IfRegisterLogFails("attempt", << JSON(500, "error", "text"), Return >>),
    Call("GetAllPermissions", "list", "permission"),
    If("err", <<
        IfRegisterLogFails("outcome", << JSON(500, "error", "text"), Return >>),
        JSON(500, "error", "text"),
        Return
    >>),
    IfRegisterLogFails("outcome", << JSON(500, "error", "text"), Return >>),
    JSON(200, "", "dto"),
    Return >>

\* lines 232-274
PermissionController_SearchPermissionsByID == <<
    IfNotCheckPermission("PERMISSION_SEARCH_PERMISSION_BY_ID", <<
        IfRegisterLogFails("denied", << JSON(500, "error", "text"), Return >>),
        Return
    >>),
    IfInvalid("nonempty", <<
        IfRegisterLogFails("outcome", << JSON(500, "error", "text"), Return >>),
        JSON(400, "error", "text"),
        Return
    >>),
    IfRegisterLogFails("attempt", << JSON(500, "error", "text"), Return >>),
    Call("SearchPermissionsByID", "search", "permission"),
    If("err", <<
        IfRegisterLogFails("outcome", << JSON(500, "error", "text"), Return >>),
        JSON(500, "error", "text"),
        Return
    >>),
    IfRegisterLogFails("outcome", << JSON(500, "error", "text"), Return >>),
    JSON(200, "", "dto"),
    Return >>

\* lines 288-330
PermissionController_SearchPermissionsByName == <<
    IfNotCheckPermission("PERMISSION_SEARCH_PERMISSION_BY_NAME", <<
        IfRegisterLogFails("denied", << JSON(500, "error", "text"), Return >>),
        Return
    >>),
    IfInvalid("nonempty", <<
        IfRegisterLogFails("outcome", << JSON(500, "error", "text"), Return >>),
        JSON(400, "error", "text"),
        Return
    >>),
    IfRegisterLogFails("attempt", << JSON(500, "error", "text"), Return >>),
    Call("SearchPermissionsByName", "searchNK", "permission"),
    If("err", <<
        IfRegisterLogFails("outcome", << JSON(500, "error", "text"), Return >>),
        JSON(500, "error", "text"),
        Return
    >>),
    IfRegisterLogFails("outcome", << JSON(500, "error", "text"), Return >>),
    JSON(200, "", "dto"),
    Return >>

HandlerNames == {
    "UserController.GetUserByID",
    "UserController.GetAllUsers",
    "UserController.SearchUsersByID",
    "UserController.SearchUsersByEmail",
    "UserController.UpdateUserState",
    "UserController.UpdateUser",
    "UserController.CreateUser",
    "AuthorizationController.CheckUserPermission",
    "BillingController.CalculateSubtotal",
    "BillingController.CalculateTotal",
    "ControllerHealthCheck",
    "RoleControllerB.GetRoleByID",
    "RoleControllerB.GetAllRoles",
    "RoleControllerB.GetAllPermissionsOfRole",
    "RoleControllerB.ExistRole",
    "RoleControllerB.SearchRolesByID",
    "RoleControllerB.SearchRolesByName",
    "DiscountTypeController.GetDiscountTypeByID",
    "DiscountTypeController.GetAllDiscountTypes",
    "DiscountTypeController.CreateDiscountType",
    "RoleController.GetRoleByID",
    "RoleController.GetAllRoles",
    "RoleController.GetAllPermissionsOfRole",
    "RoleController.ExistRole",
    "RoleController.SearchRolesByID",
    "RoleController.SearchRolesByName",
    "TaxTypeController.GetTaxTypeByID",
    "TaxTypeController.GetAllTaxTypes",
    "TaxTypeController.CreateTaxType",
    "IdentifierTypeController.GetAllIdentifierTypes",
    "IdentifierTypeController.GetIdentifierTypeByID",
    "UserCredentialValidationController.ValidateUserCredentials",
    "CommentController.GetCommentByID",
    "CommentController.GetAllComments",
    "CommentController.SearchCommentsByEmail",
    "CommentController.CreateComment",
    "CommentController.UpdateComment",
    "CommentController.SearchCommentsByID",
    "CommentController.SearchCommentsByName",
    "InvoiceController.GetAllInvoices",
    "InvoiceController.GetInvoiceByID",
    "InvoiceController.SearchInvoiceByID",
    "InvoiceController.SearchInvoiceByCustomerPersonalId",
    "InvoiceController.CreateInvoice",
    "OrderStateTypeController.GetOrderStateTypeByID",
    "OrderStateTypeController.GetAllOrderStateTypes",
    "ExternalSaleController.GetExternalSaleByID",
    "ExternalSaleController.GetAllExternalSales",
    "ExternalSaleController.CreateExternalSale",
    "UserTypeController.GetUserTypeByID",
    "UserTypeController.GetAllUserTypes",
    "UserTypeController.ExistsUserType",
    "UserTypeController.SearchUserTypesByID",
    "UserTypeController.SearchUserTypesByName",
    "ItemTypeController.GetItemTypeByID",
    "ItemTypeController.GetItemTypes",
    "AppointmentController.GetAppointmentByID",
    "AppointmentController.GetAllAppointments",
    "AppointmentController.SearchAppointmentsByID",
    "AppointmentController.SearchAppointmentsByCustomerID",
    "AppointmentController.SearchAppointmentsByState",
    "AppointmentController.GetAppointmentsByCustomerID",
    "AppointmentController.CreateAppointment",
    "AppointmentController.UpdateAppointment",
    "AppointmentController.GetAppointmentByCustomerIDAndDate",
    "AppointmentController.DeleteAppointmentByID",
    "AppointmentController.GetAppointmentsByHourRange",
    "EmployeeController.GetEmployeeByID",
    "EmployeeController.GetAllEmployees",
    "EmployeeController.SearchEmployeesByID",
    "EmployeeController.SearchEmployeesByName",
    "EmployeeController.CreateEmployee",
    "EmployeeController.UpdateEmployee",
    "AdditionalExpenseController.GetAdditionalExpenseByID",
    "AdditionalExpenseController.GetAllAdditionalExpenses",
    "AdditionalExpenseController.CreateAdditionalExpense",
    "AdditionalExpenseController.DeleteAdditionalExpense",
    "AdditionalExpenseController.UpdateAdditionalExpense",
    "CustomerController.GetAllCustomers",
    "CustomerController.GetCustomerByID",
    "CustomerController.GetCustomerByCustomerID",
    "CustomerController.CreateCustomer",
    "CustomerController.UpdateCustomer",
    "CustomerController.GetCustomerByEmail",
    "CustomerController.SearchCustomersByID",
    "CustomerController.SearchCustomersByName",
    "CustomerController.SearchCustomersByLastName",
    "ItemController.CheckItemStock",
    "ItemController.GetItemByID",
    "ItemController.GetAllItems",
    "ItemController.SearchItemsByID",
    "ItemController.SearchItemsByName",
    "ItemController.UpdateItemState",
    "ItemController.UpdateItem",
    "ItemController.CreateItem",
    "UserStateTypeController.GetUserStateTypeByID",
    "UserStateTypeController.GetAllUserStateTypes",
    "PermissionController.GetPermissionByID",
    "PermissionController.GetAllPermissions",
    "PermissionController.SearchPermissionsByID",
    "PermissionController.SearchPermissionsByName" }

Handler(h) ==
    CASE h = "UserController.GetUserByID" -> UserController_GetUserByID
      [] h = "UserController.GetAllUsers" -> UserController_GetAllUsers
      [] h = "UserController.SearchUsersByID" -> UserController_SearchUsersByID
      [] h = "UserController.SearchUsersByEmail" -> UserController_SearchUsersByEmail
      [] h = "UserController.UpdateUserState" -> UserController_UpdateUserState
      [] h = "UserController.UpdateUser" -> UserController_UpdateUser
      [] h = "UserController.CreateUser" -> UserController_CreateUser
      [] h = "AuthorizationController.CheckUserPermission" -> AuthorizationController_CheckUserPermission
      [] h = "BillingController.CalculateSubtotal" -> BillingController_CalculateSubtotal
      [] h = "BillingController.CalculateTotal" -> BillingController_CalculateTotal
      [] h = "ControllerHealthCheck" -> ControllerHealthCheck
      [] h = "RoleControllerB.GetRoleByID" -> RoleControllerB_GetRoleByID
      [] h = "RoleControllerB.GetAllRoles" -> RoleControllerB_GetAllRoles
      [] h = "RoleControllerB.GetAllPermissionsOfRole" -> RoleControllerB_GetAllPermissionsOfRole
      [] h = "RoleControllerB.ExistRole" -> RoleControllerB_ExistRole
      [] h = "RoleControllerB.SearchRolesByID" -> RoleControllerB_SearchRolesByID
      [] h = "RoleControllerB.SearchRolesByName" -> RoleControllerB_SearchRolesByName
      [] h = "DiscountTypeController.GetDiscountTypeByID" -> DiscountTypeController_GetDiscountTypeByID
      [] h = "DiscountTypeController.GetAllDiscountTypes" -> DiscountTypeController_GetAllDiscountTypes
      [] h = "DiscountTypeController.CreateDiscountType" -> DiscountTypeController_CreateDiscountType
      [] h = "RoleController.GetRoleByID" -> RoleController_GetRoleByID
      [] h = "RoleController.GetAllRoles" -> RoleController_GetAllRoles
      [] h = "RoleController.GetAllPermissionsOfRole" -> RoleController_GetAllPermissionsOfRole
      [] h = "RoleController.ExistRole" -> RoleController_ExistRole
      [] h = "RoleController.SearchRolesByID" -> RoleController_SearchRolesByID
      [] h = "RoleController.SearchRolesByName" -> RoleController_SearchRolesByName
      [] h = "TaxTypeController.GetTaxTypeByID" -> TaxTypeController_GetTaxTypeByID
      [] h = "TaxTypeController.GetAllTaxTypes" -> TaxTypeController_GetAllTaxTypes
      [] h = "TaxTypeController.CreateTaxType" -> TaxTypeController_CreateTaxType
      [] h = "IdentifierTypeController.GetAllIdentifierTypes" -> IdentifierTypeController_GetAllIdentifierTypes
      [] h = "IdentifierTypeController.GetIdentifierTypeByID" -> IdentifierTypeController_GetIdentifierTypeByID
      [] h = "UserCredentialValidationController.ValidateUserCredentials" -> UserCredentialValidationController_ValidateUserCredentials
      [] h = "CommentController.GetCommentByID" -> CommentController_GetCommentByID
      [] h = "CommentController.GetAllComments" -> CommentController_GetAllComments
      [] h = "CommentController.SearchCommentsByEmail" -> CommentController_SearchCommentsByEmail
      [] h = "CommentController.CreateComment" -> CommentController_CreateComment
      [] h = "CommentController.UpdateComment" -> CommentController_UpdateComment
      [] h = "CommentController.SearchCommentsByID" -> CommentController_SearchCommentsByID
      [] h = "CommentController.SearchCommentsByName" -> CommentController_SearchCommentsByName
      [] h = "InvoiceController.GetAllInvoices" -> InvoiceController_GetAllInvoices
      [] h = "InvoiceController.GetInvoiceByID" -> InvoiceController_GetInvoiceByID
      [] h = "InvoiceController.SearchInvoiceByID" -> InvoiceController_SearchInvoiceByID
      [] h = "InvoiceController.SearchInvoiceByCustomerPersonalId" -> InvoiceController_SearchInvoiceByCustomerPersonalId
      [] h = "InvoiceController.CreateInvoice" -> InvoiceController_CreateInvoice
      [] h = "OrderStateTypeController.GetOrderStateTypeByID" -> OrderStateTypeController_GetOrderStateTypeByID
      [] h = "OrderStateTypeController.GetAllOrderStateTypes" -> OrderStateTypeController_GetAllOrderStateTypes
      [] h = "ExternalSaleController.GetExternalSaleByID" -> ExternalSaleController_GetExternalSaleByID
      [] h = "ExternalSaleController.GetAllExternalSales" -> ExternalSaleController_GetAllExternalSales
      [] h = "ExternalSaleController.CreateExternalSale" -> ExternalSaleController_CreateExternalSale
      [] h = "UserTypeController.GetUserTypeByID" -> UserTypeController_GetUserTypeByID
      [] h = "UserTypeController.GetAllUserTypes" -> UserTypeController_GetAllUserTypes
      [] h = "UserTypeController.ExistsUserType" -> UserTypeController_ExistsUserType
      [] h = "UserTypeController.SearchUserTypesByID" -> UserTypeController_SearchUserTypesByID
      [] h = "UserTypeController.SearchUserTypesByName" -> UserTypeController_SearchUserTypesByName
      [] h = "ItemTypeController.GetItemTypeByID" -> ItemTypeController_GetItemTypeByID
      [] h = "ItemTypeController.GetItemTypes" -> ItemTypeController_GetItemTypes
      [] h = "AppointmentController.GetAppointmentByID" -> AppointmentController_GetAppointmentByID
      [] h = "AppointmentController.GetAllAppointments" -> AppointmentController_GetAllAppointments
      [] h = "AppointmentController.SearchAppointmentsByID" -> AppointmentController_SearchAppointmentsByID
      [] h = "AppointmentController.SearchAppointmentsByCustomerID" -> AppointmentController_SearchAppointmentsByCustomerID
      [] h = "AppointmentController.SearchAppointmentsByState" -> AppointmentController_SearchAppointmentsByState
      [] h = "AppointmentController.GetAppointmentsByCustomerID" -> AppointmentController_GetAppointmentsByCustomerID
      [] h = "AppointmentController.CreateAppointment" -> AppointmentController_CreateAppointment
      [] h = "AppointmentController.UpdateAppointment" -> AppointmentController_UpdateAppointment
      [] h = "AppointmentController.GetAppointmentByCustomerIDAndDate" -> AppointmentController_GetAppointmentByCustomerIDAndDate
      [] h = "AppointmentController.DeleteAppointmentByID" -> AppointmentController_DeleteAppointmentByID
      [] h = "AppointmentController.GetAppointmentsByHourRange" -> AppointmentController_GetAppointmentsByHourRange
      [] h = "EmployeeController.GetEmployeeByID" -> EmployeeController_GetEmployeeByID
      [] h = "EmployeeController.GetAllEmployees" -> EmployeeController_GetAllEmployees
      [] h = "EmployeeController.SearchEmployeesByID" -> EmployeeController_SearchEmployeesByID
      [] h = "EmployeeController.SearchEmployeesByName" -> EmployeeController_SearchEmployeesByName
      [] h = "EmployeeController.CreateEmployee" -> EmployeeController_CreateEmployee
      [] h = "EmployeeController.UpdateEmployee" -> EmployeeController_UpdateEmployee
      [] h = "AdditionalExpenseController.GetAdditionalExpenseByID" -> AdditionalExpenseController_GetAdditionalExpenseByID
      [] h = "AdditionalExpenseController.GetAllAdditionalExpenses" -> AdditionalExpenseController_GetAllAdditionalExpenses
      [] h = "AdditionalExpenseController.CreateAdditionalExpense" -> AdditionalExpenseController_CreateAdditionalExpense
      [] h = "AdditionalExpenseController.DeleteAdditionalExpense" -> AdditionalExpenseController_DeleteAdditionalExpense
      [] h = "AdditionalExpenseController.UpdateAdditionalExpense" -> AdditionalExpenseController_UpdateAdditionalExpense
      [] h = "CustomerController.GetAllCustomers" -> CustomerController_GetAllCustomers
      [] h = "CustomerController.GetCustomerByID" -> CustomerController_GetCustomerByID
      [] h = "CustomerController.GetCustomerByCustomerID" -> CustomerController_GetCustomerByCustomerID
      [] h = "CustomerController.CreateCustomer" -> CustomerController_CreateCustomer
      [] h = "CustomerController.UpdateCustomer" -> CustomerController_UpdateCustomer
      [] h = "CustomerController.GetCustomerByEmail" -> CustomerController_GetCustomerByEmail
      [] h = "CustomerController.SearchCustomersByID" -> CustomerController_SearchCustomersByID
      [] h = "CustomerController.SearchCustomersByName" -> CustomerController_SearchCustomersByName
      [] h = "CustomerController.SearchCustomersByLastName" -> CustomerController_SearchCustomersByLastName
      [] h = "ItemController.CheckItemStock" -> ItemController_CheckItemStock
      [] h = "ItemController.GetItemByID" -> ItemController_GetItemByID
      [] h = "ItemController.GetAllItems" -> ItemController_GetAllItems
      [] h = "ItemController.SearchItemsByID" -> ItemController_SearchItemsByID
      [] h = "ItemController.SearchItemsByName" -> ItemController_SearchItemsByName
      [] h = "ItemController.UpdateItemState" -> ItemController_UpdateItemState
      [] h = "ItemController.UpdateItem" -> ItemController_UpdateItem
      [] h = "ItemController.CreateItem" -> ItemController_CreateItem
      [] h = "UserStateTypeController.GetUserStateTypeByID" -> UserStateTypeController_GetUserStateTypeByID
      [] h = "UserStateTypeController.GetAllUserStateTypes" -> UserStateTypeController_GetAllUserStateTypes
      [] h = "PermissionController.GetPermissionByID" -> PermissionController_GetPermissionByID
      [] h = "PermissionController.GetAllPermissions" -> PermissionController_GetAllPermissions
      [] h = "PermissionController.SearchPermissionsByID" -> PermissionController_SearchPermissionsByID
      [] h = "PermissionController.SearchPermissionsByName" -> PermissionController_SearchPermissionsByName

(***************************************************************************)
(* Requests.                                                               *)
(***************************************************************************)
NoResult == [err |-> "", n |-> 0]

\* val holds the entities the last service call returned and body the
\* entities the response was made of; store0 and trace are history: the store
\* when the request arrived and what the request has done so far
IdleRequest ==
    [st |-> "idle", h |-> "", principal |-> "", code |-> <<>>,
     key |-> <<>>, hasKey |-> FALSE, res |-> NoResult, val |-> {},
     body |-> {}, trace |-> <<>>, store0 |-> [k \in Kinds |-> {}]]

Event(e, s, t, n, v) == [e |-> e, s |-> s, t |-> t, n |-> n, v |-> v]

Running(r) == req[r].st = "run" /\ req[r].code # <<>>

Cur(r) == Head(req[r].code)

Rest(r) == Tail(req[r].code)

Init ==
    /\ \E seed \in SeedTables : store = [k \in Kinds |-> seed]
    /\ auditLog = <<>>
    /\ req = [r \in Slots |-> IdleRequest]

\* the router hands a request of principal p to handler h
Start(r, h) ==
    /\ req[r].st = "idle"
    /\ \E p \in Principals :
         req' = [req EXCEPT ![r] = [IdleRequest EXCEPT
                    !.st = "run", !.h = h, !.principal = p, !.code = Handler(h),
                    !.store0 = store]]
    /\ UNCHANGED <<store, auditLog>>

\* utilities.LogUtil.RegisterLog(c, message): appends one entry or fails
\* RegisterLog keeping only the newest entry of the audit log
StepRegisterLog_KeepsNewestOnly(r) ==
    /\ Running(r)
    /\ Cur(r).op = "log"
    /\ \E ok \in BOOLEAN :
         /\ auditLog' = IF ok
                        THEN <<[slot |-> r, who |-> req[r].principal,
                                kind |-> Cur(r).a]>>
                        ELSE auditLog
         /\ req' = [req EXCEPT
                ![r].trace = Append(@, Event("log", Cur(r).a, Cur(r).b,
                                             IF ok THEN 1 ELSE 0, "")),
                ![r].code = IF ~ok /\ Cur(r).b = "checked"
                            THEN Cur(r).blk \o Rest(r)
                            ELSE Rest(r)]
    /\ UNCHANGED store

StepRegisterLog(r) ==
    /\ Running(r)
    /\ Cur(r).op = "log"
    /\ \E ok \in BOOLEAN :
         /\ auditLog' = IF ok
                        THEN Append(auditLog, [slot |-> r, who |-> req[r].principal,
                                               kind |-> Cur(r).a])
                        ELSE auditLog
         /\ req' = [req EXCEPT
                ![r].trace = Append(@, Event("log", Cur(r).a, Cur(r).b,
                                             IF ok THEN 1 ELSE 0, "")),
                ![r].code = IF ~ok /\ Cur(r).b = "checked"
                            THEN Cur(r).blk \o Rest(r)
                            ELSE Rest(r)]
    /\ UNCHANGED store

StepCheckPermission(r) ==
    /\ Running(r)
    /\ Cur(r).op = "auth"
    /\ LET allowed == CheckPermission(req[r].principal, Cur(r).a)
       IN req' = [req EXCEPT
                ![r].trace = Append(@, Event("auth", Cur(r).a, "",
                                             IF allowed THEN 1 ELSE 0, "")),
                ![r].code = IF allowed THEN Rest(r) ELSE Cur(r).blk \o Rest(r)]
    /\ UNCHANGED <<store, auditLog>>

\* the input a handler parses: a path or query parameter p that becomes the
\* key of the request ("atoi", "sscanf", "nonempty"), a second parameter p
\* ("quantity"), the email of CheckUserPermission ("query"), or a body, a
\* date or a flag that binds (ok) or does not
BindOk(how, p, ok, principal) ==
    CASE how = "atoi"     -> AtoiOk(p)
      [] how = "sscanf"   -> SscanfOk(p)
      [] how = "nonempty" -> p # <<>>
      [] how = "quantity" -> AtoiOk(p)
      [] how = "query"    -> principal # ""
      [] OTHER            -> ok

BindKey(how, p) ==
    CASE how = "atoi"     -> Itoa(Atoi(p))
      [] how = "sscanf"   -> Itoa(Sscanf(p))
      [] OTHER            -> p

BindsKey(how) == how \in {"atoi", "sscanf", "nonempty"}

ReadsParam(how) == BindsKey(how) \/ how = "quantity"

ReadsBody(how) == how \in {"json", "fields", "date", "bool"}

StepBind(r) ==
    /\ Running(r)
    /\ Cur(r).op = "bind"
    /\ \E p \in ParamStrings, ok \in BOOLEAN :
         LET how == Cur(r).a
             good == BindOk(how, p, ok, req[r].principal)
         IN /\ ~ReadsBody(how) => ok
            /\ ~ReadsParam(how) => p = <<>>
            /\ req' = [req EXCEPT
                ![r].trace = Append(@, Event("bind", how, "",
                                             IF good THEN 1 ELSE 0, "")),
                ![r].key = IF good /\ BindsKey(how) THEN BindKey(how, p) ELSE @,
                ![r].hasKey = IF good /\ BindsKey(how) THEN TRUE ELSE @,
                ![r].code = IF good THEN Rest(r) ELSE Cur(r).blk \o Rest(r)]
    /\ UNCHANGED <<store, auditLog>>

NeedsKey(optype) ==
    optype \in {"get", "getNK", "exists", "search", "searchNK", "createNK",
                "createLimited", "update", "delete", "haspermission"}

CallOutcomes(optype, rows, p, key) ==
    IF optype = "haspermission"
    THEN HasPermissionOutcomes(rows, p, key)
    ELSE ServiceOutcomes(optype, rows, key)

\* the entities a successful call hands back to the handler: the row looked
\* up, the rows listed or matched, the row created or updated
Returned(optype, rows, key, out) ==
    IF out.err # "" THEN {}
    ELSE CASE optype \in {"get", "update"} -> {x \in out.rows : x.id = key}
           [] optype = "getNK"    -> {x \in rows : x.nk = key}
           [] optype = "list"     -> rows
           [] optype = "search"   -> {x \in rows : Contains(x.id, key)}
           [] optype = "searchNK" -> {x \in rows : Contains(x.nk, key)}
           [] optype \in {"create", "createNK", "createLimited"} -> out.rows \ rows
           [] OTHER               -> {}

StepCall(r) ==
    /\ Running(r)
    /\ Cur(r).op = "call"
    /\ LET optype == Cur(r).b
           kind == Cur(r).c
           keys == IF ~NeedsKey(optype) THEN {<<>>}
                   ELSE IF req[r].hasKey THEN {req[r].key}
                   ELSE ParamStrings
       IN \E key \in keys :
            \E out \in CallOutcomes(optype, store[kind], req[r].principal, key) :
               /\ store' = [store EXCEPT ![kind] = out.rows]
               /\ req' = [req EXCEPT
                    ![r].trace = Append(@, Event("svc", Cur(r).a, optype,
                                                 IF out.err = "" THEN 0 ELSE 1,
                                                 out.err)),
                    ![r].key = IF NeedsKey(optype) THEN key ELSE @,
                    ![r].hasKey = IF NeedsKey(optype) THEN TRUE ELSE @,
                    ![r].res = [err |-> out.err, n |-> out.n],
                    ![r].val = Returned(optype, store[kind], key, out),
                    ![r].code = Rest(r)]
    /\ UNCHANGED auditLog

CondHolds(cond, res) ==
    CASE cond = "err"      -> res.err # ""
      [] cond = "notfound" -> res.err = "notfound"
      [] cond = "inactive" -> res.err = "inactive"
      [] cond = "limit"    -> res.err = "limit"
      [] cond = "nil"      -> res.n = 0
      [] cond = "notnil"   -> res.n > 0
      [] cond = "empty"    -> res.n = 0
      [] OTHER             -> FALSE

StepIf(r) ==
    /\ Running(r)
    /\ Cur(r).op = "if"
    /\ req' = [req EXCEPT
            ![r].code = IF CondHolds(Cur(r).a, req[r].res)
                        THEN Cur(r).blk \o Rest(r)
                        ELSE Cur(r).els \o Rest(r)]
    /\ UNCHANGED <<store, auditLog>>

RECURSIVE Repeat(_, _)
Repeat(blk, n) == IF n = 0 THEN <<>> ELSE blk \o Repeat(blk, n - 1)

StepForEach(r) ==
    /\ Running(r)
    /\ Cur(r).op = "foreach"
    /\ req' = [req EXCEPT ![r].code = Repeat(Cur(r).blk, req[r].res.n) \o Rest(r)]
    /\ UNCHANGED <<store, auditLog>>

\* c.JSON(status, body)
StepJSON(r) ==
    /\ Running(r)
    /\ Cur(r).op = "json"
    /\ req' = [req EXCEPT
            ![r].trace = Append(@, Event("resp", Cur(r).a, Cur(r).b, Cur(r).n,
                                   IF Cur(r).b = "bool"
                                   THEN (IF req[r].res.n > 0 THEN "true" ELSE "false")
                                   ELSE "")),
            ![r].body = IF Cur(r).b = "dto" THEN req[r].val ELSE {},
            ![r].code = Rest(r)]
    /\ UNCHANGED <<store, auditLog>>

StepReturn(r) ==
    /\ Running(r)
    /\ Cur(r).op = "return"
    /\ req' = [req EXCEPT ![r].st = "done", ![r].code = <<>>]
    /\ UNCHANGED <<store, auditLog>>

Step(r) ==
    \/ StepRegisterLog(r)
    \/ StepCheckPermission(r)
    \/ StepBind(r)
    \/ StepCall(r)
    \/ StepIf(r)
    \/ StepForEach(r)
    \/ StepJSON(r)
    \/ StepReturn(r)

\* one request, of any handler, against any seeded store
Next ==
    \/ \E h \in HandlerNames : Start(1, h)
    \/ Step(1)

Spec == Init /\ [][Next]_vars

(***************************************************************************)
(* Vocabulary of the properties: what a request has done so far.           *)
(***************************************************************************)
Done(r) == req[r].st = "done"

Events(r) == {req[r].trace[i] : i \in 1..Len(req[r].trace)}

\* the events of request r before position i of its trace
Before(r, i) == {req[r].trace[j] : j \in 1..(i - 1)}

After(r, i) == {req[r].trace[j] : j \in (i + 1)..Len(req[r].trace)}

Denial(ev) == ev.e = "auth" /\ ev.n = 0

Grant(ev) == ev.e = "auth" /\ ev.n = 1

ServiceCall(ev) == ev.e = "svc"

Response(ev) == ev.e = "resp"

AttemptLogged(ev) == ev.e = "log" /\ ev.s = "attempt" /\ ev.n = 1

AttemptLogFailed(ev) == ev.e = "log" /\ ev.s = "attempt" /\ ev.n = 0

\* the status codes request r has written, in order
RECURSIVE StatusesOf(_)
StatusesOf(t) ==
    IF t = <<>> THEN <<>>
    ELSE IF Head(t).e = "resp" THEN <<Head(t).n>> \o StatusesOf(Tail(t))
    ELSE StatusesOf(Tail(t))

Statuses(r) == StatusesOf(req[r].trace)

(***************************************************************************)
(* C1: for every handler that calls CheckPermission, a request whose       *)
(* CheckPermission returned false has written a 403 response, after the    *)
(* check, by the time it terminates.                                       *)
(***************************************************************************)
C1_DenialAnswered403 ==
    \A r \in Slots :
        Done(r) =>
            \A i \in 1..Len(req[r].trace) :
                Denial(req[r].trace[i]) =>
                    \E ev \in After(r, i) : Response(ev) /\ ev.n = 403

(***************************************************************************)
(* C2: in every handler other than the health check and the login, an      *)
(* entity service operation is invoked only after CheckPermission has      *)
(* returned true earlier in the same request.                              *)
(***************************************************************************)
C2_ServiceOnlyAfterGrant ==
    \A r \in Slots :
        req[r].h \notin {"ControllerHealthCheck",
                         "UserCredentialValidationController.ValidateUserCredentials"} =>
            \A i \in 1..Len(req[r].trace) :
                ServiceCall(req[r].trace[i]) => \E ev \in Before(r, i) : Grant(ev)

Authorized(r) == \E ev \in Events(r) : Grant(ev)

LacksCreateUser(r) ==
    /\ req[r].h = "UserController.CreateUser"
    /\ ~CheckPermission(req[r].principal, "PERMISSION_CREATE_USER")

(***************************************************************************)
(* C3: when the requesting principal lacks PERMISSION_CREATE_USER,         *)
(* CreateUser responds 403 and invokes neither Service.GetUserByEmail nor  *)
(* Service.CreateUser, so the stored users are unchanged.                  *)
(***************************************************************************)
C3_DeniedCreateUserAnswered403 ==
    \A r \in Slots :
        LacksCreateUser(r) =>
            /\ \A ev \in Events(r) : ~ServiceCall(ev)
            /\ store = req[r].store0
            /\ Done(r) => Statuses(r) = <<403>>

(***************************************************************************)
(* C3, amended: when the requesting principal lacks PERMISSION_CREATE_USER,*)
(* CreateUser responds 403, or 500 when the attempt audit entry cannot be  *)
(* recorded, and invokes neither Service.GetUserByEmail nor                *)
(* Service.CreateUser, so the stored users are unchanged.                  *)
(***************************************************************************)
C3_DeniedCreateUserAnswered403Or500 ==
    \A r \in Slots :
        LacksCreateUser(r) =>
            /\ \A ev \in Events(r) : ~ServiceCall(ev)
            /\ store = req[r].store0
            /\ Done(r) =>
                \/ Statuses(r) = <<403>>
                \/ /\ Statuses(r) = <<500>>
                   /\ \E ev \in Events(r) : AttemptLogFailed(ev)

C3_Witness ==
    \E r \in Slots :
        /\ Done(r)
        /\ LacksCreateUser(r)
        /\ \E ev \in Events(r) : Denial(ev)
        /\ Statuses(r) = <<403>>
        /\ store["user"] # {}

(***************************************************************************)
(* C4: for every handler, a request whose attempt RegisterLog call         *)
(* returned an error ends with a 500 response, and in it CheckPermission   *)
(* is not evaluated and no entity service operation is executed.           *)
(***************************************************************************)
C4_FailedAttemptLogEndsRequest ==
    \A r \in Slots :
        (Done(r) /\ \E ev \in Events(r) : AttemptLogFailed(ev)) =>
            /\ \E ev \in Events(r) : Response(ev) /\ ev.n = 500
            /\ \A ev \in Events(r) : ev.e # "auth" /\ ~ServiceCall(ev)

(***************************************************************************)
(* C5: no entity service operation is invoked in a request unless an       *)
(* attempt audit entry was successfully recorded earlier in that request.  *)
(***************************************************************************)
C5_ServiceOnlyAfterAttemptLogged ==
    \A r \in Slots :
        \A i \in 1..Len(req[r].trace) :
            ServiceCall(req[r].trace[i]) =>
                \E ev \in Before(r, i) : AttemptLogged(ev)

\* the union of the permissions of all roles of the principal's user type
EffectivePermissions(p) ==
    IF PrincipalUserType(p) = "" THEN {}
    ELSE LET roles == UserTypeRoles[PrincipalUserType(p)]
         IN UNION {RolePermissions[roles[i]] : i \in DOMAIN roles}

KindOf(h) ==
    CASE h = "UserController.CreateUser" -> "user"
      [] h = "EmployeeController.CreateEmployee" -> "employee"
      [] OTHER -> ""

CreateHandlers == {"UserController.CreateUser", "EmployeeController.CreateEmployee"}

\* the natural key of the request was stored when the request arrived
KeyStored(r) ==
    /\ req[r].hasKey
    /\ \E row \in req[r].store0[KindOf(req[r].h)] : row.nk = req[r].key

CreateInvoked(r) == \E ev \in Events(r) : ServiceCall(ev) /\ ev.t = "createNK"

InputRejected(r) == \E ev \in Events(r) : ev.e = "bind" /\ ev.n = 0

(***************************************************************************)
(* C8: an authorized Create request (CreateEmployee, CreateUser) whose     *)
(* natural key is already stored is answered 409, and one whose required   *)
(* fields are missing or invalid is answered 400; in neither case is the   *)
(* create service operation invoked or a row inserted.                     *)
(***************************************************************************)
C8_DuplicateIs409InvalidIs400 ==
    \A r \in Slots :
        (Done(r) /\ req[r].h \in CreateHandlers /\ Authorized(r)) =>
            /\ KeyStored(r) =>
                  /\ Statuses(r) = <<409>>
                  /\ ~CreateInvoked(r)
                  /\ store = req[r].store0
            /\ InputRejected(r) =>
                  /\ Statuses(r) = <<400>>
                  /\ ~CreateInvoked(r)
                  /\ store = req[r].store0

GetByIDHandlers ==
    {"UserController.GetUserByID", "RoleController.GetRoleByID",
     "RoleControllerB.GetRoleByID", "DiscountTypeController.GetDiscountTypeByID",
     "TaxTypeController.GetTaxTypeByID",
     "IdentifierTypeController.GetIdentifierTypeByID",
     "CommentController.GetCommentByID", "InvoiceController.GetInvoiceByID",
     "OrderStateTypeController.GetOrderStateTypeByID",
     "ExternalSaleController.GetExternalSaleByID",
     "UserTypeController.GetUserTypeByID", "ItemTypeController.GetItemTypeByID",
     "AppointmentController.GetAppointmentByID",
     "EmployeeController.GetEmployeeByID",
     "AdditionalExpenseController.GetAdditionalExpenseByID",
     "CustomerController.GetCustomerByID", "ItemController.GetItemByID",
     "UserStateTypeController.GetUserStateTypeByID",
     "PermissionController.GetPermissionByID"}

\* a lookup or an update of the request found no row with the id
TargetMissing(r) == \E ev \in Events(r) : ServiceCall(ev) /\ ev.v = "notfound"

(***************************************************************************)
(* C9: for every GetByID handler, an authorized and logged request for an  *)
(* id that does not exist in persistence is answered 404 and never 500.    *)
(***************************************************************************)
C9_MissingIdIs404 ==
    \A r \in Slots :
        ( /\ Done(r)
          /\ req[r].h \in GetByIDHandlers
          /\ Authorized(r)
          /\ \E ev \in Events(r) : AttemptLogged(ev)
          /\ TargetMissing(r) ) =>
            Statuses(r) = <<404>>

UpdateHandlers ==
    {"UserController.UpdateUserState", "UserController.UpdateUser",
     "CommentController.UpdateComment", "AppointmentController.UpdateAppointment",
     "EmployeeController.UpdateEmployee",
     "AdditionalExpenseController.UpdateAdditionalExpense",
     "CustomerController.UpdateCustomer", "ItemController.UpdateItemState",
     "ItemController.UpdateItem"}

(***************************************************************************)
(* C10: for every Update handler, an authorized request with well-formed   *)
(* input that targets an id which does not exist is answered 404 (not 500  *)
(* and not 200), and no row is created or modified.                        *)
(***************************************************************************)
C10_UpdateOfMissingIdIs404 ==
    \A r \in Slots :
        ( /\ Done(r)
          /\ req[r].h \in UpdateHandlers
          /\ Authorized(r)
          /\ ~InputRejected(r)
          /\ TargetMissing(r) ) =>
            /\ Statuses(r) = <<404>>
            /\ store = req[r].store0

(***************************************************************************)
(* Two Create requests served concurrently: gin serves every request on a  *)
(* goroutine of its own, so the steps of the two handlers interleave.  The *)
(* audit log writer and the database are healthy all along and the bodies  *)
(* carry a natural key of ConcKeys: the stored one or a new one.           *)
(***************************************************************************)
ConcKeys == {SeedRow.nk, <<"x">>}

NextConc ==
    \/ \E r \in Slots, h \in CreateHandlers : Start(r, h)
    \/ \E r \in Slots : StepRegisterLog(r) /\ auditLog' # auditLog
    \/ \E r \in Slots : StepCheckPermission(r)
    \/ \E r \in Slots : StepBind(r)
    \/ \E r \in Slots :
          /\ StepCall(r)
          /\ req'[r].key \in ConcKeys
          /\ req'[r].res.err # "other"
    \/ \E r \in Slots : StepIf(r)
    \/ \E r \in Slots : StepJSON(r)
    \/ \E r \in Slots : StepReturn(r)

SpecConc == Init /\ [][NextConc]_vars

\* both requests are done; they were authorized Create requests of one
\* handler with well-formed bodies carrying the same natural key, which was
\* stored when neither of them arrived
SameKeyCreatesDone ==
    /\ Done(1) /\ Done(2)
    /\ req[1].h = req[2].h
    /\ req[1].h \in CreateHandlers
    /\ Authorized(1) /\ Authorized(2)
    /\ ~InputRejected(1) /\ ~InputRejected(2)
    /\ req[1].hasKey /\ req[2].hasKey
    /\ req[1].key = req[2].key
    /\ ~KeyStored(1) /\ ~KeyStored(2)

(***************************************************************************)
(* C7: for two concurrent Create requests carrying the same natural key    *)
(* (CreateUser with the same email, CreateEmployee with the same           *)
(* PersonalID), in every interleaving exactly one request is answered 201  *)
(* and the other is answered 409, and at most one row with that key exists *)
(* afterwards.                                                             *)
(***************************************************************************)
C7_OneCreatedOtherConflict ==
    SameKeyCreatesDone =>
        /\ {Statuses(1), Statuses(2)} = {<<201>>, <<409>>}
        /\ Cardinality({row \in store[KindOf(req[1].h)] : row.nk = req[1].key}) <= 1

(***************************************************************************)
(* C11: every response with a failure status (400 or above) written by any *)
(* handler has a JSON body whose top-level key is "error" with a string    *)
(* value (a fixed text or the text of an error).                           *)
(***************************************************************************)
C11_FailureBodyIsError ==
    \A r \in Slots :
        \A ev \in Events(r) :
            (Response(ev) /\ ev.n >= 400) =>
                (ev.s = "error" /\ ev.t \in {"text", "rawerr"})

StatusCodes == {200, 201, 400, 401, 403, 404, 409, 500}

(***************************************************************************)
(* C12: every HTTP response written by any handler, on any path, has a     *)
(* status code in the set {200, 201, 400, 401, 403, 404, 409, 500}.        *)
(***************************************************************************)
C12_StatusInDocumentedSet ==
    \A r \in Slots :
        \A ev \in Events(r) : Response(ev) => ev.n \in StatusCodes

\* the login has answered an inactive account
C12_Witness ==
    /\ Done(1)
    /\ req[1].h = "UserCredentialValidationController.ValidateUserCredentials"
    /\ req[1].res.err = "inactive"
    /\ Statuses(1) = <<403>>

\* request r has just had a RegisterLog call return without error
LoggedJustNow(r) ==
    /\ Len(req'[r].trace) = Len(req[r].trace) + 1
    /\ LET ev == req'[r].trace[Len(req'[r].trace)]
       IN ev.e = "log" /\ ev.n = 1

\* the audit log has gained exactly one entry and kept all it had
AppendedOne ==
    /\ Len(auditLog') = Len(auditLog) + 1
    /\ SubSeq(auditLog', 1, Len(auditLog)) = auditLog

MaxAudit == 3

Finish(r) ==
    /\ req[r].st = "done"
    /\ req' = [req EXCEPT ![r] = IdleRequest]
    /\ UNCHANGED <<store, auditLog>>

\* the handlers of the Permission, Role and UserType controllers
AccessControlHandlers ==
    {"PermissionController.GetPermissionByID",
     "PermissionController.GetAllPermissions",
     "PermissionController.SearchPermissionsByID",
     "PermissionController.SearchPermissionsByName",
     "RoleController.GetRoleByID", "RoleController.GetAllRoles",
     "RoleController.GetAllPermissionsOfRole", "RoleController.ExistRole",
     "RoleController.SearchRolesByID", "RoleController.SearchRolesByName",
     "RoleControllerB.GetRoleByID", "RoleControllerB.GetAllRoles",
     "RoleControllerB.GetAllPermissionsOfRole", "RoleControllerB.ExistRole",
     "RoleControllerB.SearchRolesByID", "RoleControllerB.SearchRolesByName",
     "UserTypeController.GetUserTypeByID", "UserTypeController.GetAllUserTypes",
     "UserTypeController.ExistsUserType",
     "UserTypeController.SearchUserTypesByID",
     "UserTypeController.SearchUserTypesByName"}

NextSeq ==
    \/ \E h \in AccessControlHandlers : Len(auditLog) < MaxAudit /\ Start(1, h)
    \/ Step(1)
    \/ Finish(1)

SpecSeq == Init /\ [][NextSeq]_vars

AccessControlKinds == {"permission", "role", "usertype"}

(***************************************************************************)
(* C14: no step of any request to the Permission, Role and UserType        *)
(* controllers changes the stored permissions, roles and user types (with  *)
(* their assignments), so across any sequence of such requests they stay   *)
(* as they were: these controllers only read.                              *)
(***************************************************************************)
C14_AccessControlDataUnchanged ==
    [][(\E r \in Slots : req'[r].h \in AccessControlHandlers) =>
          \A k \in AccessControlKinds : store'[k] = store[k]]_vars

\* the entries request r has appended to the audit log
LoggedBy(r) ==
    Cardinality({i \in 1..Len(req[r].trace) :
                    req[r].trace[i].e = "log" /\ req[r].trace[i].n = 1})

\* after an earlier request was logged, a further request has read a stored
\* permission, role or user type
C14_Witness ==
    /\ Done(1)
    /\ req[1].h \in AccessControlHandlers
    /\ LoggedBy(1) < Len(auditLog)
    /\ \E ev \in Events(1) : ServiceCall(ev) /\ ev.n = 0 /\ ev.t = "get"

\* the permission ids the statements of code pass to CheckPermission
RECURSIVE PermissionsIn(_)
PermissionsIn(code) ==
    IF code = <<>> THEN {}
    ELSE LET i == Head(code)
         IN (IF i.op = "auth" THEN {i.a} ELSE {})
            \cup PermissionsIn(i.blk) \cup PermissionsIn(i.els)
            \cup PermissionsIn(Tail(code))

(***************************************************************************)
(* C15: the mapping from handlers to the permission id they check is       *)
(* one-to-one: the handler a request is routed to checks no permission id  *)
(* that a different handler checks.                                        *)
(***************************************************************************)
C15_PermissionGatesOneHandler ==
    \A r \in Slots :
        (req[r].st = "run" /\ req[r].trace = <<>>) =>
            \A h \in HandlerNames \ {req[r].h} :
                PermissionsIn(Handler(req[r].h)) \cap PermissionsIn(Handler(h)) = {}

LoginRequest(r) ==
    req[r].h = "UserCredentialValidationController.ValidateUserCredentials"

InvoiceSearchHandlers ==
    {"InvoiceController.SearchInvoiceByID",
     "InvoiceController.SearchInvoiceByCustomerPersonalId"}

(***************************************************************************)
(* C17: a finished SearchInvoiceByID or SearchInvoiceByCustomerPersonalId  *)
(* request whose search ran without error has answered 404 when the search *)
(* matched no invoice and 200 when it matched some.                        *)
(***************************************************************************)
C17_EmptyInvoiceSearchIs404 ==
    \A r \in Slots :
        (/\ Done(r)
         /\ req[r].h \in InvoiceSearchHandlers
         /\ \E ev \in Events(r) : ServiceCall(ev) /\ ev.n = 0) =>
            Statuses(r) = IF req[r].res.n = 0 THEN <<404>> ELSE <<200>>

(***************************************************************************)
(* CreateAppointment requests served one after another, with the audit log *)
(* writer and the database healthy and the bodies carrying a date and time *)
(* of ConcKeys.  A new request is taken while the audit log holds fewer    *)
(* than MaxAuditAppointments entries.                                      *)
(***************************************************************************)
MaxAuditAppointments == 5

NextAppointments ==
    \/ /\ Len(auditLog) < MaxAuditAppointments
       /\ Start(1, "AppointmentController.CreateAppointment")
    \/ StepRegisterLog(1) /\ auditLog' # auditLog
    \/ StepCheckPermission(1)
    \/ StepBind(1)
    \/ /\ StepCall(1)
       /\ req'[1].key \in ConcKeys
       /\ req'[1].res.err # "other"
    \/ StepIf(1)
    \/ StepJSON(1)
    \/ StepReturn(1)
    \/ Finish(1)

SpecAppointments == Init /\ [][NextAppointments]_vars

\* the appointments scheduled in rows for the date and time nk
AppointmentsAt(rows, nk) == {row \in rows : row.nk = nk}

LacksPermission(r) ==
    \E perm \in PermissionsIn(Handler(req[r].h)) :
        ~CheckPermission(req[r].principal, perm)

(***************************************************************************)
(* C19: in every handler that checks a permission, authorization is        *)
(* decided before input validation: a request from a principal lacking the *)
(* permission is never answered 400, whatever its path, query or body.     *)
(***************************************************************************)
C19_NoValidationBeforeAuthorization ==
    \A r \in Slots :
        (req[r].st # "idle" /\ LacksPermission(r)) =>
            \A ev \in Events(r) : ~(Response(ev) /\ ev.n = 400)

\* a denied search, whose query was never looked at, has been answered 403
C19_Witness ==
    /\ Done(1)
    /\ req[1].h = "UserController.SearchUsersByID"
    /\ LacksPermission(1)
    /\ \E ev \in Events(1) : Denial(ev)
    /\ Statuses(1) = <<403>>

(***************************************************************************)
(* C20: no entity service operation is invoked in a request that is        *)
(* answered 400 for invalid input: all input validation of a handler       *)
(* completes before its first service call.                                *)
(***************************************************************************)
C20_NoServiceInRejectedRequest ==
    \A r \in Slots :
        (Done(r) /\ InputRejected(r) /\ Statuses(r) = <<400>>) =>
            \A ev \in Events(r) : ~ServiceCall(ev)

(***************************************************************************)
(* C21: in every handler, every RegisterLog call of a request happens      *)
(* before the response of that request is written: no audit entry is       *)
(* attempted after a response.                                             *)
(***************************************************************************)
C21_NoLogAfterResponse ==
    \A r \in Slots :
        \A i \in 1..Len(req[r].trace) :
            Response(req[r].trace[i]) =>
                \A ev \in After(r, i) : ev.e # "log"

\* a request has recorded its outcome and then answered
C21_Witness ==
    /\ Done(1)
    /\ \E i \in 1..Len(req[1].trace) :
          /\ Response(req[1].trace[i])
          /\ \E ev \in Before(1, i) : ev.e = "log" /\ ev.s = "outcome" /\ ev.n = 1

(***************************************************************************)
(* C26: every handler writes at most one HTTP response per request on      *)
(* every path, the paths where an outcome RegisterLog call fails included. *)
(***************************************************************************)
C26_AtMostOneResponse ==
    \A r \in Slots : Len(Statuses(r)) <= 1

\* a request whose outcome entry could not be recorded has answered once
C26_Witness ==
    /\ Done(1)
    /\ \E ev \in Events(1) : ev.e = "log" /\ ev.s = "outcome" /\ ev.n = 0
    /\ Len(Statuses(1)) = 1

\* an audit entry for an outcome (a denial included) was attempted
OutcomeLog(ev) == ev.e = "log" /\ ev.s \in {"outcome", "denied"}

(***************************************************************************)
(* C22: every request that got past the attempt-log stage (its attempt     *)
(* entry was recorded) has called RegisterLog for the outcome it reached,  *)
(* after the attempt entry, by the time it terminates.                     *)
(***************************************************************************)
C22_OutcomeAlwaysLogged ==
    \A r \in Slots :
        Done(r) =>
            \A i \in 1..Len(req[r].trace) :
                AttemptLogged(req[r].trace[i]) =>
                    \E ev \in After(r, i) : OutcomeLog(ev)

\* a service call that failed with an error other than not-found
ServiceFailure(ev) == ServiceCall(ev) /\ ev.n = 1 /\ ev.v # "notfound"

(***************************************************************************)
(* C23: a finished request in which an entity service call failed with an  *)
(* error other than not-found has been answered with a failure status and  *)
(* has not been answered 200 or 201.                                       *)
(***************************************************************************)
C23_ServiceFailureEndsInFailure ==
    \A r \in Slots :
        (Done(r) /\ \E ev \in Events(r) : ServiceFailure(ev)) =>
            /\ Statuses(r) # <<>>
            /\ \A ev \in Events(r) : Response(ev) => ev.n >= 400

(***************************************************************************)
(* C24: a finished request in which a service call failed with an          *)
(* unclassified persistence failure (neither a not-found nor a uniqueness  *)
(* conflict) has been answered with status 500 and with no other status.   *)
(***************************************************************************)
C24_PersistenceFailureIs500 ==
    \A r \in Slots :
        (Done(r) /\ \E ev \in Events(r) : ServiceCall(ev) /\ ev.v = "other") =>
            Statuses(r) = <<500>>

\* the error value a handler holds at position i of the trace of request r
\* comes from a failed service call: a service call failed before i and no
\* input failed to bind since
HoldsServiceError(r, i) ==
    \E j \in 1..(i - 1) :
        /\ ServiceCall(req[r].trace[j]) /\ req[r].trace[j].n = 1
        /\ \A k \in (j + 1)..(i - 1) :
              ~(req[r].trace[k].e = "bind" /\ req[r].trace[k].n = 0)

(***************************************************************************)
(* C25: no response with a status other than 500 carries the raw error     *)
(* text returned by an entity service call: a response whose body is the   *)
(* text of a service error has status 500.                                 *)
(***************************************************************************)
C25_ServiceErrorTextOnlyIn500 ==
    \A r \in Slots :
        \A i \in 1..Len(req[r].trace) :
            (/\ Response(req[r].trace[i])
             /\ req[r].trace[i].t = "rawerr"
             /\ HoldsServiceError(r, i)) =>
                req[r].trace[i].n = 500

\* the Update handlers that look the target up before they update it
ReadThenWriteHandlers ==
    {"CommentController.UpdateComment", "UserController.UpdateUser",
     "EmployeeController.UpdateEmployee", "ItemController.UpdateItem",
     "AdditionalExpenseController.UpdateAdditionalExpense"}

LookupFailed(r) == \E ev \in Events(r) : ServiceCall(ev) /\ ev.t = "get" /\ ev.n = 1

(***************************************************************************)
(* C27: in the read-then-write Update handlers (UpdateComment, UpdateUser, *)
(* UpdateEmployee, UpdateItem, UpdateAdditionalExpense), a request whose   *)
(* lookup of the target failed has not invoked the Update service          *)
(* operation and the stored entities are as they were when it arrived.     *)
(***************************************************************************)
C27_FailedLookupUpdatesNothing ==
    \A r \in Slots :
        (req[r].h \in ReadThenWriteHandlers /\ LookupFailed(r)) =>
            /\ \A ev \in Events(r) : ~(ServiceCall(ev) /\ ev.t = "update")
            /\ store = req[r].store0

\* an update of a missing target has been answered
C27_Witness ==
    /\ Done(1)
    /\ req[1].h \in ReadThenWriteHandlers
    /\ \E ev \in Events(1) : ServiceCall(ev) /\ ev.t = "get" /\ ev.v = "notfound"
    /\ Statuses(1) = <<404>>

(***************************************************************************)
(* CreateUser requests served one after another, with the audit log writer *)
(* healthy and the bodies carrying an email of ConcKeys; the lookup and    *)
(* the insert may fail.  A new request is taken while the audit log holds  *)
(* fewer than MaxAuditUsers entries.                                       *)
(***************************************************************************)
MaxAuditUsers == 5

NextUsers ==
    \/ /\ Len(auditLog) < MaxAuditUsers
       /\ Start(1, "UserController.CreateUser")
    \/ StepRegisterLog(1) /\ auditLog' # auditLog
    \/ StepCheckPermission(1)
    \/ StepBind(1)
    \/ StepCall(1) /\ req'[1].key \in ConcKeys
    \/ StepIf(1)
    \/ StepJSON(1)
    \/ StepReturn(1)
    \/ Finish(1)

SpecUsers == Init /\ [][NextUsers]_vars

UserHandlers ==
    {"UserController.GetUserByID", "UserController.GetAllUsers",
     "UserController.SearchUsersByID", "UserController.SearchUsersByEmail",
     "UserController.UpdateUserState", "UserController.CreateUser"}

\* the stored entities are replaced, or every user gets another password
ChangeStore ==
    /\ Done(1)
    /\ req[2].st = "idle"
    /\ \/ /\ \E ev \in Events(1) : Denial(ev)
          /\ \E seed \in SeedTables : store' = [k \in Kinds |-> seed]
       \/ /\ req[1].h \in UserHandlers
          /\ store' = [store EXCEPT !["user"] = {Row(x.id, x.nk, "c") : x \in @}]
    /\ UNCHANGED <<auditLog, req>>

StartSecondRun ==
    /\ Done(1)
    /\ (\E ev \in Events(1) : Denial(ev)) \/ req[1].h \in UserHandlers
    /\ Start(2, req[1].h)
    /\ req'[2].principal = req[1].principal

NextTwoRuns ==
    \/ \E h \in HandlerNames : Start(1, h)
    \/ Step(1)
    \/ ChangeStore
    \/ StartSecondRun
    \/ Step(2)

SpecTwoRuns == Init /\ [][NextTwoRuns]_vars

\* what the environment decided for a request apart from the stored entities:
\* whether each audit entry could be written and whether each input bound
RECURSIVE Choices(_)
Choices(t) ==
    IF t = <<>> THEN <<>>
    ELSE IF Head(t).e \in {"log", "bind"}
         THEN <<Head(t).n>> \o Choices(Tail(t))
         ELSE Choices(Tail(t))

WrittenBy1(entry) == entry.slot = 1

WrittenBy2(entry) == entry.slot = 2

\* the audit entries of request r, without the slot that served it
AuditEntries(r) ==
    LET s == IF r = 1 THEN SelectSeq(auditLog, WrittenBy1)
                      ELSE SelectSeq(auditLog, WrittenBy2)
    IN [i \in 1..Len(s) |-> [who |-> s[i].who, kind |-> s[i].kind]]

\* what a client and an auditor see of request r
Observable(r) ==
    [responses |-> SelectSeq(req[r].trace, Response),
     body |-> req[r].body,
     audit |-> AuditEntries(r)]

SameRequestTwice ==
    /\ Done(1) /\ Done(2)
    /\ req[1].h = req[2].h
    /\ req[1].principal = req[2].principal

(***************************************************************************)
(* C29: for any handler that checks a permission, two runs of a denied     *)
(* request that differ only in the stored entities give the same           *)
(* responses and the same audit entries.                                   *)
(***************************************************************************)
C29_DenialIndependentOfStore ==
    (/\ SameRequestTwice
     /\ \E ev \in Events(1) : Denial(ev)
     /\ Choices(req[1].trace) = Choices(req[2].trace)) =>
        Observable(1) = Observable(2)

\* a denied request was served on two different stores
C29_Witness ==
    /\ SameRequestTwice
    /\ \E ev \in Events(1) : Denial(ev)
    /\ \E ev \in Events(2) : Denial(ev)
    /\ Choices(req[1].trace) = Choices(req[2].trace)
    /\ req[1].store0 # req[2].store0
    /\ Statuses(2) = <<403>>

\* the user table without the passwords
WithoutPasswords(rows) == {[id |-> x.id, nk |-> x.nk] : x \in rows}

\* two stores that differ at most in the Password field of users
DifferOnlyInPasswords(s, t) ==
    /\ \A k \in Kinds \ {"user"} : s[k] = t[k]
    /\ WithoutPasswords(s["user"]) = WithoutPasswords(t["user"])

(***************************************************************************)
(* C30: the response bodies of GetUserByID, GetAllUsers, SearchUsersByID,  *)
(* SearchUsersByEmail, UpdateUserState and CreateUser are the same on two  *)
(* stores that differ only in the Password field of users.                 *)
(***************************************************************************)
C30_BodyIndependentOfPasswords ==
    (/\ SameRequestTwice
     /\ req[1].h \in UserHandlers
     /\ req[1].key = req[2].key
     /\ req[1].trace = req[2].trace
     /\ DifferOnlyInPasswords(req[1].store0, req[2].store0)) =>
        req[1].body = req[2].body

====
